---- MODULE Spec2Model ----
(***************************************************************************)
(* GRANDPA light client of ismp-substrate: the finality proof verifier     *)
(* (grandpa/verifier/src/lib.rs), the consensus client that wraps it       *)
(* (grandpa/src/consensus.rs) and the pallet storage it is written to      *)
(* (pallet-ismp/src/host.rs).                                              *)
(*                                                                         *)
(* grandpa/primitives/src/justification.rs (AncestryChain,                 *)
(* GrandpaJustification::verify, find_scheduled_change) is not part of the *)
(* source tree at hand; those three are modelled from sections 4.1, 4.2    *)
(* and 4.3 of the specification.                                           *)
(***************************************************************************)
EXTENDS Integers, Sequences, FiniteSets, TLC

VARIABLES
    consensus_states,     \* pallet storage ConsensusStates[client]: the encoded ConsensusState
    state_commitments,    \* pallet storage StateCommitments: (state machine, height) -> commitment
    call,                 \* the consensus message being handled and what the handler returned
    accepted,             \* history: the justification check behind the stored latest_hash
    jcase,                \* a justification case: authority list, justification, verdict
    acase,                \* an ancestry case: header index, from, to and the walk so far
    mmr,                  \* pallet storage of the mountain range: nodes, NumberOfLeaves, RootHash
    held,                 \* a proof a relayer holds, with the root it was generated under
    ret,                  \* the last call into the pallet's host or range, and what it returned
    incoming_request_acks,    \* pallet storage IncomingRequestAcks: commitments with a receipt
    outgoing_request_acks,    \* pallet storage OutgoingRequestAcks: commitment -> leaf query
    frozen_heights,           \* pallet storage FrozenHeights: state machine -> height
    frozen_consensus_clients, \* pallet storage FrozenConsensusClients: client -> bool
    consensus_update_time,    \* pallet storage ConsensusClientUpdateTime: client -> seconds
    now,                  \* TimeProvider::now, the host timestamp in seconds
    pushing,              \* pushes under way: what each has read of the leaf counter
    tcase,                \* a reader's case (a trie read, a decoding): its inputs and what it returned
    incoming_response_acks,   \* pallet storage IncomingResponseAcks: commitments with a receipt
    events,               \* the events deposited, oldest first
    nonce,                \* pallet storage Nonce: the nonce of the next message sent
    inherent_updated,     \* parachain pallet storage InherentUpdated: whether a value exists
    digest,               \* the logs in the digest of the block last finalized
    consensus_update_results  \* pallet storage ConsensusUpdateResults: client -> state updates

\* the responses' receipts, the logs and the storage of the later sections
later ==
    <<incoming_response_acks, events, nonce, inherent_updated, digest,
      consensus_update_results>>

\* the state beside the light client's and the range's
more ==
    <<ret, incoming_request_acks, outgoing_request_acks, frozen_heights,
      frozen_consensus_clients, consensus_update_time, now, pushing, tcase, later>>

vars == <<consensus_states, state_commitments, call, accepted, jcase, acase, mmr, held, more>>

\* ------------------------------------------------------------------ bounds

\* longest unknown_headers list of a finality proof
MaxUnknown == 2

\* longest precommit list of a justification case
MaxPrecommits == 3

\* largest voting weight of an authority in a justification case
MaxWeight == 2

\* number of distinct header hashes of an ancestry case
MaxHashes == 3

\* longest list of unknown headers in a finality proof handled between
\* changes of the tracked parachains
MaxAdminUnknown == 1

\* most leaves pushed into the mountain range
MaxLeaves == 4

\* most leaf indices of one generate_proof call
MaxProven == 2

\* number of distinct requests dispatched (told apart by nonce)
MaxRequests == 2

\* callers of mmr_push that may be under way at once, and their pushes
MaxPushers == 2
MaxPushes == 3

\* keys inserted in a committed trie, and nodes a proof may lack
MaxInserted == 3
MaxMissing == 1

\* bytes of a timestamp extrinsic handed in
MaxExtrinsicLen == 5

\* heights a state machine is frozen or asked about at, the seconds the clock
\* runs to, and the challenge period the runtime configures for the client
MaxHeight == 3
MaxTime == 6
ChallengePeriod == 2

\* ------------------------------------------------------------- sequences

Range(s) == {s[i] : i \in DOMAIN s}

SeqsUpTo(S, n) == UNION {[1..k -> S] : k \in 0..n}

\* sequences without repeated elements, of length at most n
DistinctSeqs(S, n) == {s \in SeqsUpTo(S, n) : \A i, k \in DOMAIN s : i # k => s[i] # s[k]}

RECURSIVE SumSeq(_)
SumSeq(s) == IF s = <<>> THEN 0 ELSE Head(s) + SumSeq(Tail(s))

\* --------------------------------------------------------------- headers

\* A header is [number, parent_hash, state_root, digest, slot, ismp]. Its
\* digest logs are three fields: digest is the index of the authority list a
\* GRANDPA ScheduledChange log announces (0: no such log); slot is the Aura
\* pre-runtime slot (0: no such log); ismp is the ISMP consensus log (0: none,
\* 1: a 32 byte root, 2: a value of another length).
\* Header::hash(): a collision-free function of every field of the header.
Hash(h) ==
    1 + h.digest + 3 * (h.ismp + 3 * (h.slot + 2 * (h.state_root + 4 * (h.number + 4 * h.parent_hash))))

\* ------------------------------------------------------ authority lists

\* AuthorityList: ordered (authority id, voting weight) pairs.
\* List 1 is in force at the trusted header, list 2 is announced by header h2.
AuthorityLists ==
    <<  << [id |-> 1, weight |-> 1], [id |-> 2, weight |-> 1], [id |-> 3, weight |-> 1] >>,
        << [id |-> 1, weight |-> 2], [id |-> 2, weight |-> 2], [id |-> 3, weight |-> 1] >>  >>

AuthorityIds == {1, 2, 3}

\* Authority 3 is faulty: it signs anything. Alone it is no quorum of either
\* list, and without it the others are a quorum of list 2 only.
Faulty == {3}

\* ------------------------------------------------- the chain being followed

\* The trusted header and the blocks that exist on the network: h1 <- h2 <- h3
\* with a fork f2 at height 2; h2 announces authority list 2.
\* h3 carries no Aura slot and f2 an ISMP log of the wrong length.
h0 == [number |-> 0, parent_hash |-> 0, state_root |-> 0, digest |-> 0, slot |-> 1, ismp |-> 0]
h1 == [number |-> 1, parent_hash |-> Hash(h0), state_root |-> 1, digest |-> 0, slot |-> 1, ismp |-> 1]
h2 == [number |-> 2, parent_hash |-> Hash(h1), state_root |-> 2, digest |-> 2, slot |-> 1, ismp |-> 0]
h3 == [number |-> 3, parent_hash |-> Hash(h2), state_root |-> 3, digest |-> 0, slot |-> 0, ismp |-> 1]
f2 == [number |-> 2, parent_hash |-> Hash(h1), state_root |-> 0, digest |-> 0, slot |-> 1, ismp |-> 2]

\* A header no node ever produced: it links to h2 but keeps h2's number.
forged ==
    [number |-> 2, parent_hash |-> Hash(h2), state_root |-> 0, digest |-> 0, slot |-> 1, ismp |-> 1]

RealHeaders == {h0, h1, h2, h3, f2}

\* the headers a prover can put in unknown_headers
HeaderPool == {h1, h2, h3, f2, forged}

HeaderOf(hash) == CHOOSE h \in RealHeaders \cup HeaderPool : Hash(h) = hash

\* the id of the authority set that votes on the children of real header h
RECURSIVE SetIdAfter(_)
SetIdAfter(h) ==
    (IF h = h0 THEN 0 ELSE SetIdAfter(HeaderOf(h.parent_hash))) + (IF h.digest # 0 THEN 1 ELSE 0)

\* the set ids under which honest authorities precommit real header h: the set
\* that finalizes it and, when h enacts a change, the new set voting on its
\* round base
VoteSetIds(h) ==
    IF h = h0 THEN {0} ELSE {SetIdAfter(HeaderOf(h.parent_hash)), SetIdAfter(h)}

\* the authority list in force on the real chain under set id s
TrueAuthorities(s) == IF s + 1 \in DOMAIN AuthorityLists THEN AuthorityLists[s + 1] ELSE <<>>

\* --------------------------------------------------------------- signatures

\* An AuthoritySignature is modelled by the payload its key signed: the
\* precommit, the round and the set id. NoSignature stands for bytes that are
\* no signature of any payload.
NoSignature == [signer |-> 0, target_hash |-> 0, target_number |-> 0, round |-> 0, set_id |-> 0]

Payload(id, target_hash, target_number, round, set_id) ==
    [signer |-> id, target_hash |-> target_hash, target_number |-> target_number,
     round |-> round, set_id |-> set_id]

\* the signatures that exist: an honest authority signs real blocks under the
\* set id it votes in; a faulty one signs anything
SignatureExists(p) ==
    \/ p.signer \in Faulty
    \/ \E h \in RealHeaders :
          /\ Hash(h) = p.target_hash
          /\ h.number = p.target_number
          /\ p.set_id \in VoteSetIds(h)
          /\ \E a \in Range(TrueAuthorities(p.set_id)) : a.id = p.signer

\* a signed precommit as a prover can produce it
SignedPrecommit(id, target_hash, target_number, round, set_id) ==
    LET p == Payload(id, target_hash, target_number, round, set_id)
    IN  [precommit |-> [target_hash |-> target_hash, target_number |-> target_number],
         signature |-> IF SignatureExists(p) THEN p ELSE NoSignature,
         id        |-> id]

\* ------------------------------------------------------------ AncestryChain

\* AncestryChain::new: the index hash -> header over the given headers
AncestryChain_new(headers) ==
    [hash \in {Hash(headers[i]) : i \in DOMAIN headers} |->
        headers[CHOOSE i \in DOMAIN headers : Hash(headers[i]) = hash]]

\* AncestryChain::header
header(chain, hash) == IF hash \in DOMAIN chain THEN {chain[hash]} ELSE {}

\* AncestryChain::binary_search(hash).is_ok(), after sort()
binary_search(chain, hash) == header(chain, hash) # {}

\* where AncestryChain::ancestry(from, to) starts: at `to`, nothing visited
ancestry_start(to) == [current |-> to, steps |-> 0, route |-> {}, status |-> "Walking"]

\* fault: a hash that is no known header ends the walk with success
ancestry_step_dangling_ok(chain, from, walk) ==
    IF walk.current = from \/ walk.current \notin DOMAIN chain
        THEN [walk EXCEPT !.status = "Ok", !.route = @ \cup {walk.current}]
    ELSE IF walk.steps = Cardinality(DOMAIN chain) + 1
        THEN [walk EXCEPT !.status = "InvalidAncestry", !.route = {}]
    ELSE [walk EXCEPT !.current = chain[walk.current].parent_hash,
                      !.steps = @ + 1,
                      !.route = @ \cup {walk.current}]

\* fault: the walk is not bounded by the number of known headers
ancestry_step_unbounded(chain, from, walk) ==
    IF walk.current = from
        THEN [walk EXCEPT !.status = "Ok", !.route = @ \cup {walk.current}]
    ELSE IF walk.current \notin DOMAIN chain
        THEN [walk EXCEPT !.status = "InvalidAncestry", !.route = {}]
    ELSE [walk EXCEPT !.current = chain[walk.current].parent_hash,
                      !.steps = @ + 1,
                      !.route = @ \cup {walk.current}]

\* one step of the walk: done when `from` is reached, failed when the current
\* hash is no known header or the known header count + 1 is used up, else on
\* to the parent
ancestry_step(chain, from, walk) ==
    IF walk.current = from
        THEN [walk EXCEPT !.status = "Ok", !.route = @ \cup {walk.current}]
    ELSE IF walk.steps = Cardinality(DOMAIN chain) + 1 \/ walk.current \notin DOMAIN chain
        THEN [walk EXCEPT !.status = "InvalidAncestry", !.route = {}]
    ELSE [walk EXCEPT !.current = chain[walk.current].parent_hash,
                      !.steps = @ + 1,
                      !.route = @ \cup {walk.current}]

\* what a finished walk returns: the route, or InvalidAncestry
ancestry_result(walk) == [ok |-> walk.status = "Ok", route |-> walk.route]

RECURSIVE ancestry_walk(_, _, _)
ancestry_walk(chain, from, walk) ==
    IF walk.status # "Walking" THEN walk
    ELSE ancestry_walk(chain, from, ancestry_step(chain, from, walk))

\* AncestryChain::ancestry(from, to): the hashes from `to` back to `from`
ancestry(chain, from, to) == ancestry_result(ancestry_walk(chain, from, ancestry_start(to)))

\* ------------------------------------------------------ GrandpaJustification

\* bytes that do not decode to a GrandpaJustification
Undecodable == [decodable |-> FALSE]

\* the voting weight of authority `id` in the list
weight_of(authorities, id) ==
    SumSeq([i \in DOMAIN authorities |->
               IF authorities[i].id = id THEN authorities[i].weight ELSE 0])

total_weight(authorities) == SumSeq([i \in DOMAIN authorities |-> authorities[i].weight])

\* the signature of a signed precommit is valid for (round, set_id, target)
\* under the key of the authority it names
check_signature(signed, round, set_id) ==
    signed.signature = Payload(signed.id, signed.precommit.target_hash,
                               signed.precommit.target_number, round, set_id)

\* fault: no precommit is discarded for its target
surviving_all(justification) == DOMAIN justification.commit.precommits

\* the precommits whose target is an ancestor of, or equal to, the commit target
surviving(justification) ==
    LET chain == AncestryChain_new(justification.votes_ancestries)
        pcs   == justification.commit.precommits
    IN  {i \in DOMAIN pcs :
            ancestry(chain, pcs[i].precommit.target_hash, justification.commit.target_hash).ok}

\* the voting weight a justification gathers
counted_weight(justification, authorities) ==
    LET pcs == justification.commit.precommits
    IN  SumSeq([i \in DOMAIN pcs |->
                   IF i \in surviving(justification) THEN weight_of(authorities, pcs[i].id) ELSE 0])

\* fault: two thirds of the total weight are enough
quorum_at_least(weight, total) == 3 * weight >= 2 * total

\* strictly more than two thirds of the total weight
quorum(weight, total) == 3 * weight > 2 * total

\* GrandpaJustification::verify(set_id, authorities)
verify(justification, set_id, authorities) ==
    LET pcs == justification.commit.precommits
    IN  IF \E i \in DOMAIN pcs : ~check_signature(pcs[i], justification.round, set_id)
            THEN "BadSignature"
        ELSE IF \E i, k \in DOMAIN pcs : i # k /\ pcs[i].id = pcs[k].id
            THEN "DuplicateVote"
        ELSE IF ~quorum(counted_weight(justification, authorities), total_weight(authorities))
            THEN "InsufficientVotingWeight"
        ELSE "Ok"

\* find_scheduled_change: the ScheduledChange log of the header's digest, if any
find_scheduled_change(h) ==
    IF h.digest = 0 THEN [some |-> FALSE, next_authorities |-> <<>>]
    ELSE [some |-> TRUE, next_authorities |-> AuthorityLists[h.digest]]

\* ------------------------------------------- verify_grandpa_finality_proof

\* Iterator::max_by_key(number): the last header with the highest number
max_by_key(headers) ==
    LET i == CHOOSE i \in DOMAIN headers :
                 /\ \A k \in DOMAIN headers : headers[k].number <= headers[i].number
                 /\ \A k \in DOMAIN headers : k > i => headers[k].number < headers[i].number
    IN  headers[i]

\* Iterator::min_by_key(number): the first header with the lowest number
min_by_key(headers) ==
    LET i == CHOOSE i \in DOMAIN headers :
                 /\ \A k \in DOMAIN headers : headers[k].number >= headers[i].number
                 /\ \A k \in DOMAIN headers : k < i => headers[k].number > headers[i].number
    IN  headers[i]

\* Err(err): an error carries no state
Failure(err) == [ok |-> FALSE, err |-> err]

\* fault: the scheduled authorities are taken over and current_set_id is not
\* incremented
rotate_same_set_id(consensus_state, target) ==
    LET scheduled_change == find_scheduled_change(target)
        finalized == [consensus_state EXCEPT !.latest_hash = Hash(target),
                                             !.latest_height = target.number]
    IN  IF scheduled_change.some
        THEN [finalized EXCEPT !.current_authorities = scheduled_change.next_authorities]
        ELSE finalized

\* fault: latest_height is set to the target's number and latest_hash is not
\* set to its hash
rotate_height_only(consensus_state, target) ==
    LET scheduled_change == find_scheduled_change(target)
        finalized == [consensus_state EXCEPT !.latest_height = target.number]
    IN  IF scheduled_change.some
        THEN [finalized EXCEPT !.current_set_id = @ + 1,
                               !.current_authorities = scheduled_change.next_authorities]
        ELSE finalized

\* lines 98-104: the new consensus state, optionally rotating authorities
rotate(consensus_state, target) ==
    LET scheduled_change == find_scheduled_change(target)
        finalized == [consensus_state EXCEPT !.latest_hash = Hash(target),
                                             !.latest_height = target.number]
    IN  IF scheduled_change.some
        THEN [finalized EXCEPT !.current_set_id = @ + 1,
                               !.current_authorities = scheduled_change.next_authorities]
        ELSE finalized

\* fault: the result of justification.verify is dropped
verify_justification_ignored(justification, consensus_state) == "Ok"

\* fault: the justification checked against the set id and authorities the
\* target header rotates to
verify_justification_rotated(justification, consensus_state) ==
    LET rotated == rotate(consensus_state, HeaderOf(justification.commit.target_hash))
    IN  verify(justification, rotated.current_set_id, rotated.current_authorities)

\* line 96: the justification is checked against the set id and authorities of
\* the consensus state passed in
verify_justification(justification, consensus_state) ==
    verify(justification, consensus_state.current_set_id, consensus_state.current_authorities)

\* fault: the check of lines 82-88, from the base to latest_hash, left out
check_ancestry_target_only(consensus_state, headers, base, target) ==
    IF ~ancestry(headers, consensus_state.latest_hash, Hash(target)).ok
        THEN "InvalidAncestry"
    ELSE "Ok"

\* fault: the check of lines 90-92, from latest_hash to the target, left out
check_ancestry_base_only(consensus_state, headers, base, target) ==
    IF /\ base.number < consensus_state.latest_height
       /\ ~ancestry(headers, Hash(base), consensus_state.latest_hash).ok
        THEN "InvalidAncestryBase"
    ELSE "Ok"

\* lines 82-92: the two ancestry checks
check_ancestry(consensus_state, headers, base, target) ==
    IF /\ base.number < consensus_state.latest_height
       /\ ~ancestry(headers, Hash(base), consensus_state.latest_hash).ok
        THEN "InvalidAncestryBase"
    ELSE IF ~ancestry(headers, consensus_state.latest_hash, Hash(target)).ok
        THEN "InvalidAncestry"
    ELSE "Ok"

\* fault: the comparison of lines 64-66, target.hash() with
\* finality_proof.block, left out
check_target_unmatched(finality_proof) ==
    IF finality_proof.unknown_headers = <<>> THEN "EmptyUnknownHeaders"
    ELSE IF finality_proof.justification = Undecodable THEN "DecodeError"
    ELSE IF finality_proof.justification.commit.target_hash # finality_proof.block
        THEN "JustificationTargetMismatch"
    ELSE "Ok"

\* lines 57-72: the target header and the decoded justification name
\* finality_proof.block
check_target(finality_proof) ==
    IF finality_proof.unknown_headers = <<>> THEN "EmptyUnknownHeaders"
    ELSE IF Hash(max_by_key(finality_proof.unknown_headers)) # finality_proof.block
        THEN "TargetMismatch"
    ELSE IF finality_proof.justification = Undecodable THEN "DecodeError"
    ELSE IF finality_proof.justification.commit.target_hash # finality_proof.block
        THEN "JustificationTargetMismatch"
    ELSE "Ok"

\* verify_grandpa_finality_proof(consensus_state, finality_proof)
verify_grandpa_finality_proof(consensus_state, finality_proof) ==
    LET headers == AncestryChain_new(finality_proof.unknown_headers)
        targeted == check_target(finality_proof)
    IN  IF targeted # "Ok" THEN Failure(targeted)
        ELSE
        LET target == max_by_key(finality_proof.unknown_headers)
            base == min_by_key(finality_proof.unknown_headers)
            connected == check_ancestry(consensus_state, headers, base, target)
        IN  IF connected # "Ok" THEN Failure(connected)
            ELSE
            LET verdict == verify_justification(finality_proof.justification, consensus_state)
            IN  IF verdict # "Ok" THEN Failure(verdict)
                ELSE [ok |-> TRUE, err |-> "Ok",
                      consensus_state |-> rotate(consensus_state, target),
                      target |-> target, headers |-> headers]

\* --------------------------------------------------------------- trie proofs

\* A trie proof is modelled by what its nodes commit to: the root they hash
\* to, the one key they resolve and the value under it (None: proven absent).
None == [present |-> FALSE]

TrieProof(root, key, value) == [root |-> root, key |-> key, value |-> value]

\* state_machine::read_proof_check(root, proof, [key])
read_proof_check(root, proof, key) ==
    IF proof.root # root \/ proof.key # key THEN Failure("InvalidProof")
    ELSE [ok |-> TRUE, err |-> "Ok", value |-> proof.value]

\* sp_trie::verify_trie_proof(root, proof, [(key, Some(value))])
verify_trie_proof(root, proof, key, value) ==
    proof.root = root /\ proof.key = key /\ proof.value = value

\* parachain_header_storage_key(para_id)
parachain_header_storage_key(para_id) == <<"Paras", "Heads", para_id>>

\* A parachain header is [number, state_root, extrinsics_root, ismp]; the head
\* data stored on the relay chain is its encoding, or bytes that decode to no
\* header.
Garbage == [decodable |-> FALSE]

\* decode_timestamp_extrinsic: ext[2..] decoded as (u8, u8, Compact<u64>);
\* an extrinsic is its byte sequence, the timestamp its fifth byte
decode_timestamp_extrinsic(ext) ==
    IF Len(ext) < 2 THEN Failure("panic")
    ELSE IF Len(ext) < 5 THEN Failure("DecodeError")
    ELSE [ok |-> TRUE, err |-> "Ok", timestamp |-> ext[5]]

\* lines 140-166: one ParachainHeaderProofs entry checked against a finalized
\* relay chain header
verify_parachain_header(relay_chain_header, proofs) ==
    LET key == parachain_header_storage_key(proofs.para_id)
        read == read_proof_check(relay_chain_header.state_root, proofs.state_proof, key)
    IN  IF ~read.ok THEN Failure("InvalidStateProof")
        ELSE IF read.value = None THEN Failure("ParachainHeaderNotFound")
        ELSE IF read.value = Garbage THEN Failure("DecodeError")
        ELSE
        LET parachain_header == read.value
            timestamp == decode_timestamp_extrinsic(proofs.extrinsic)
        IN  IF ~verify_trie_proof(parachain_header.extrinsics_root, proofs.extrinsic_proof,
                                  0, proofs.extrinsic)
                THEN Failure("InvalidExtrinsicProof")
            ELSE IF ~timestamp.ok THEN timestamp
            ELSE [ok |-> TRUE, err |-> "Ok", para_height |-> parachain_header.number,
                  header |-> parachain_header, timestamp |-> timestamp.timestamp]

\* fault: every para_id counts as tracked
contains_any_key(map, key) == TRUE

\* BTreeMap::contains_key
contains_key(map, key) == key \in DOMAIN map

\* BTreeMap::insert
insert(map, key, value) == [k \in DOMAIN map \cup {key} |-> IF k = key THEN value ELSE map[k]]

\* lines 126-168: the loop over (relay hash, proofs) pairs; `items` is the
\* map flattened in key order
RECURSIVE verify_parachain_headers(_, _, _, _)
verify_parachain_headers(consensus_state, headers, items, verified) ==
    IF items = <<>> THEN [ok |-> TRUE, err |-> "Ok", verified |-> verified]
    ELSE
    LET item == Head(items)
    IN  IF ~binary_search(headers, item.hash)
            THEN verify_parachain_headers(consensus_state, headers, Tail(items), verified)
        ELSE IF ~contains_key(consensus_state.para_ids, item.proofs.para_id)
            THEN verify_parachain_headers(consensus_state, headers, Tail(items), verified)
        ELSE
        LET relay_chain_header == CHOOSE h \in header(headers, item.hash) : TRUE
            checked == verify_parachain_header(relay_chain_header, item.proofs)
        IN  IF ~checked.ok THEN checked
            ELSE verify_parachain_headers(consensus_state, headers, Tail(items),
                     insert(verified, checked.para_height,
                            [header |-> checked.header, timestamp |-> checked.timestamp]))

\* the (relay hash, proofs) pairs of a BTreeMap<Hash, Vec<ParachainHeaderProofs>>
\* in iteration order
RECURSIVE flatten(_)
flatten(parachain_headers) ==
    IF parachain_headers = <<>> THEN <<>>
    ELSE LET first == Head(parachain_headers)
         IN  [i \in DOMAIN first.proofs |-> [hash |-> first.hash, proofs |-> first.proofs[i]]]
             \o flatten(Tail(parachain_headers))

\* fault: an error of the parachain header extraction is dropped and the
\* finalized state returned
verify_parachain_headers_unchecked(consensus_state, proof) ==
    LET finality == verify_grandpa_finality_proof(consensus_state, proof.finality_proof)
    IN  IF ~finality.ok THEN [ok |-> FALSE, err |-> finality.err, finality |-> finality]
        ELSE
        LET extracted == verify_parachain_headers(finality.consensus_state, finality.headers,
                                                  flatten(proof.parachain_headers), <<>>)
        IN  [ok |-> TRUE, err |-> "Ok", consensus_state |-> finality.consensus_state,
             verified_parachain_headers |-> IF extracted.ok THEN extracted.verified ELSE <<>>,
             finality |-> finality]

\* verify_parachain_headers_with_grandpa_finality_proof(consensus_state, proof)
verify_parachain_headers_with_grandpa_finality_proof(consensus_state, proof) ==
    LET finality == verify_grandpa_finality_proof(consensus_state, proof.finality_proof)
    IN  IF ~finality.ok THEN [ok |-> FALSE, err |-> finality.err, finality |-> finality]
        ELSE
        LET extracted == verify_parachain_headers(finality.consensus_state, finality.headers,
                                                  flatten(proof.parachain_headers), <<>>)
        IN  IF ~extracted.ok THEN [ok |-> FALSE, err |-> extracted.err, finality |-> finality]
            ELSE [ok |-> TRUE, err |-> "Ok", consensus_state |-> finality.consensus_state,
                  verified_parachain_headers |-> extracted.verified, finality |-> finality]

\* ------------------------------------------------------------ verify_consensus

\* ConsensusState::encode: the fields in declaration order
encode(consensus_state) ==
    << consensus_state.current_authorities, consensus_state.current_set_id,
       consensus_state.latest_height, consensus_state.state_machine,
       consensus_state.para_ids, consensus_state.latest_hash >>

\* ConsensusState::decode
decode(bytes) ==
    IF Len(bytes) # 6 THEN Failure("DecodeError")
    ELSE [ok |-> TRUE, err |-> "Ok",
          value |-> [current_authorities |-> bytes[1], current_set_id |-> bytes[2],
                     latest_height |-> bytes[3], state_machine |-> bytes[4],
                     para_ids |-> bytes[5], latest_hash |-> bytes[6]]]

\* fetch_overlay_root(digest)
fetch_overlay_root(h) ==
    IF h.ismp = 2 THEN Failure("InvalidIsmpRoot")
    ELSE [ok |-> TRUE, err |-> "Ok", overlay_root |-> h.ismp]

\* fetch_overlay_root_and_timestamp(digest): slot * SLOT_DURATION ms, in seconds
fetch_overlay_root_and_timestamp(h) ==
    IF h.ismp = 2 THEN Failure("InvalidIsmpRoot")
    ELSE [ok |-> TRUE, err |-> "Ok", overlay_root |-> h.ismp,
          timestamp |-> (h.slot * 12000) \div 1000]

StateCommitmentHeight(timestamp, overlay_root, state_root, height) ==
    [commitment |-> [timestamp |-> timestamp, overlay_root |-> overlay_root,
                     state_root |-> state_root],
     height |-> height]

\* consensus.rs lines 113-146: one state commitment per verified parachain
\* header, in key order
RECURSIVE parachain_intermediates(_, _, _)
parachain_intermediates(consensus_state, parachain_headers, intermediates) ==
    IF DOMAIN parachain_headers = {} THEN [ok |-> TRUE, err |-> "Ok", intermediates |-> intermediates]
    ELSE
    LET key == CHOOSE k \in DOMAIN parachain_headers : \A o \in DOMAIN parachain_headers : k <= o
        hdr == parachain_headers[key].header
        timestamp == parachain_headers[key].timestamp
        overlay == fetch_overlay_root(hdr)
    IN  IF ~overlay.ok THEN overlay
        ELSE IF timestamp = 0 THEN Failure("TimestampNotFound")
        ELSE IF consensus_state.state_machine[1] # "Grandpa" THEN Failure("NotAParachainHost")
        ELSE parachain_intermediates(consensus_state,
                 [k \in DOMAIN parachain_headers \ {key} |-> parachain_headers[k]],
                 insert(intermediates, <<"Grandpa", hdr.number>>,
                        StateCommitmentHeight(timestamp, overlay.overlay_root, hdr.state_root,
                                              hdr.number)))

\* consensus.rs lines 151-184
standalone_intermediates(consensus_state, target) ==
    LET fetched == fetch_overlay_root_and_timestamp(target)
    IN  IF ~fetched.ok THEN fetched
        ELSE IF fetched.timestamp = 0 THEN Failure("TimestampNotFound")
        ELSE [ok |-> TRUE, err |-> "Ok",
              intermediates |->
                  insert(<<>>, consensus_state.state_machine,
                         StateCommitmentHeight(fetched.timestamp, fetched.overlay_root,
                                               target.state_root, target.number))]

\* What verify_consensus returns, with what the verifier it called returned
\* (`finality`: the result of verify_grandpa_finality_proof; `cause`: the
\* error that map_err replaced).
NotRun == [ok |-> FALSE, err |-> "NotRun"]

Rejected(err, cause, finality) ==
    [ok |-> FALSE, err |-> err, cause |-> cause, finality |-> finality]

Verified(consensus_state, intermediates, finality) ==
    [ok |-> TRUE, err |-> "Ok", cause |-> "Ok", consensus_state |-> encode(consensus_state),
     intermediates |-> intermediates, finality |-> finality]

\* GrandpaConsensusClient::verify_consensus(trusted_consensus_state, proof)
verify_consensus(trusted_consensus_state, proof) ==
    IF proof.kind = "Malformed" THEN Rejected("DecodeError", "DecodeError", NotRun)
    ELSE
    LET decoded == decode(trusted_consensus_state)
    IN  IF ~decoded.ok THEN Rejected("DecodeError", "DecodeError", NotRun)
        ELSE
        LET consensus_state == decoded.value
        IN  IF proof.kind = "RelayChainMessage"
            THEN LET verified == verify_parachain_headers_with_grandpa_finality_proof(
                                     consensus_state,
                                     [finality_proof |-> proof.finality_proof,
                                      parachain_headers |-> proof.parachain_headers])
                 IN  IF ~verified.ok
                     THEN Rejected("ErrorVerifyingParachainHeaders", verified.err,
                                   verified.finality)
                     ELSE
                     LET derived == parachain_intermediates(
                                        consensus_state, verified.verified_parachain_headers, <<>>)
                     IN  IF ~derived.ok THEN Rejected(derived.err, derived.err, verified.finality)
                         ELSE Verified(verified.consensus_state, derived.intermediates,
                                       verified.finality)
            ELSE LET verified == verify_grandpa_finality_proof(consensus_state,
                                                               proof.finality_proof)
                 IN  IF ~verified.ok
                     THEN Rejected("ErrorVerifyingParachainHeaders", verified.err, verified)
                     ELSE
                     LET derived == standalone_intermediates(consensus_state, verified.target)
                     IN  IF ~derived.ok THEN Rejected(derived.err, derived.err, verified)
                         ELSE Verified(verified.consensus_state, derived.intermediates, verified)

\* ------------------------------------------------------------------ messages

RECURSIVE SetToSeq(_)
SetToSeq(S) ==
    IF S = {} THEN <<>>
    ELSE LET m == CHOOSE m \in S : \A o \in S : m <= o IN <<m>> \o SetToSeq(S \ {m})

\* the set ids provers sign under
SetIds == {0, 1}

\* a justification of `target` carrying the precommits of `signers` for it,
\* signed in round 1 under set id s
Justification(target, signers, s) ==
    LET ids == SetToSeq(signers)
    IN  [round |-> 1,
         commit |-> [target_hash |-> Hash(target), target_number |-> target.number,
                     precommits |-> [i \in DOMAIN ids |->
                         SignedPrecommit(ids[i], Hash(target), target.number, 1, s)]],
         votes_ancestries |-> <<>>]

\* block is the hash of a highest-numbered header of hs
NamesHighest(block, hs) ==
    \E i \in DOMAIN hs : Hash(hs[i]) = block /\ \A k \in DOMAIN hs : hs[k].number <= hs[i].number

\* the justifications tried with a proof of `block` over headers hs: bytes
\* that do not decode and a justification of another header; when block names
\* a highest header of hs, also its justifications by the signer sets in
\* `signers` under every set id
Justifications(block, hs, signers) ==
    {Undecodable, Justification(IF block = Hash(h1) THEN h2 ELSE h1, AuthorityIds, 0)}
      \cup {Justification(t, S, s) :
               t \in {h \in HeaderPool : Hash(h) = block /\ NamesHighest(block, hs)},
               S \in signers, s \in SetIds}

HeaderSeqs == DistinctSeqs(HeaderPool, MaxUnknown)

\* the finality proofs tried: every header list, every block it could name
\* and the trusted block, every justification above
FinalityProofsSignedBy(header_seqs, signers) ==
    UNION {UNION {{[block |-> block, justification |-> j, unknown_headers |-> hs] :
                      j \in Justifications(block, hs, signers)} :
                  block \in {Hash(h) : h \in Range(hs)} \cup {Hash(h0)}} :
           hs \in header_seqs}

\* a parachain header committed to by relay chain state, and its timestamp extrinsic
parachain_header == [number |-> 5, state_root |-> 7, extrinsics_root |-> 8, ismp |-> 1]

\* the header of a second parachain at the same height, with the same
\* timestamp extrinsic
other_parachain_header == [number |-> 5, state_root |-> 9, extrinsics_root |-> 8, ismp |-> 1]

ParachainHeaderProofs(para_id, state_root, value, extrinsic) ==
    [state_proof |-> TrieProof(state_root, parachain_header_storage_key(para_id), value),
     extrinsic |-> extrinsic,
     extrinsic_proof |-> TrieProof(parachain_header.extrinsics_root, 0, extrinsic),
     para_id |-> para_id]

\* the proof lists tried under a relay chain header with the given state root:
\* a good proof, an absent head, a zero timestamp, an untracked parachain
\* alone, before a good proof and after one, a good proof followed by one for
\* another root, good proofs of two parachains
ProofLists(state_root) ==
    LET good == ParachainHeaderProofs(1, state_root, parachain_header, <<0, 0, 0, 0, 9>>)
        untracked == ParachainHeaderProofs(3, state_root, Garbage, <<0, 0, 0, 0, 9>>)
    IN  { <<good>>,
          <<ParachainHeaderProofs(1, state_root, None, <<0, 0, 0, 0, 9>>)>>,
          <<ParachainHeaderProofs(1, state_root, parachain_header, <<0, 0, 0, 0, 0>>)>>,
          <<untracked>>,
          <<untracked, good>>,
          <<good, ParachainHeaderProofs(3, state_root, other_parachain_header, <<0, 0, 0, 0, 9>>)>>,
          <<good, ParachainHeaderProofs(1, state_root + 1, parachain_header, <<0, 0, 0, 0, 9>>)>>,
          <<good, ParachainHeaderProofs(2, state_root, other_parachain_header, <<0, 0, 0, 0, 9>>)>> }

\* the parachain_headers maps tried with a finality proof: none, one entry
\* under the proven block or under an unknown header, one under a hash
\* outside the proof, and a good proof under each of two unknown headers (a
\* BTreeMap iterates in key order)
ParachainHeaders(finality_proof) ==
    LET hs == finality_proof.unknown_headers
        good(x) == [hash |-> Hash(x),
                    proofs |-> <<ParachainHeaderProofs(1, x.state_root, parachain_header,
                                                       <<0, 0, 0, 0, 9>>)>>]
    IN  {<<>>}
          \cup {<<[hash |-> finality_proof.block, proofs |-> proofs]>> :
                   proofs \in ProofLists(HeaderOf(finality_proof.block).state_root)}
          \cup UNION {{<<[hash |-> Hash(x), proofs |-> proofs]>> :
                          proofs \in ProofLists(x.state_root)} : x \in Range(hs)}
          \cup {<<[hash |-> Hash(f2) + 1, proofs |-> proofs]>> : proofs \in ProofLists(0)}
          \cup {<<good(pair[1]), good(pair[2])>> :
                   pair \in {q \in Range(hs) \X Range(hs) : Hash(q[1]) < Hash(q[2])}}

MessagesOver(header_seqs) ==
    {[kind |-> "Malformed"]}
      \cup {[kind |-> "StandaloneChainMessage", finality_proof |-> fp] :
               fp \in FinalityProofsSignedBy(header_seqs, SUBSET AuthorityIds)}
      \cup UNION {{[kind |-> "RelayChainMessage", finality_proof |-> fp, parachain_headers |-> p] :
                      p \in ParachainHeaders(fp)} :
                  fp \in FinalityProofsSignedBy(header_seqs, {AuthorityIds})}

Messages == MessagesOver(HeaderSeqs)

\* --------------------------------------------------------------------- state

ConsensusClientId == "GRAN"

NoCall == [active |-> FALSE]

\* the trusted consensus state the client is created with
InitialConsensusState ==
    [current_authorities |-> AuthorityLists[1], current_set_id |-> 0,
     latest_height |-> h0.number, state_machine |-> <<"Grandpa", 0>>,
     para_ids |-> (1 :> TRUE) @@ (2 :> FALSE), latest_hash |-> Hash(h0)]

\* NumberOfLeaves and RootHash are ValueQuery storage: zero leaves, the default
\* hash, and no node, before the first push; finalized tells whether
\* on_finalize ran since the last push, that is whether the block is closed
EmptyMmr ==
    [nodes |-> <<>>, number_of_leaves |-> 0, root_hash |-> <<>>, finalized |-> TRUE,
     leaf_index_offchain |-> <<>>]

\* the other storage items are empty, but for the update time written when
\* the client was created; no call was made, no push is under way
InitLater ==
    /\ incoming_response_acks = {}
    /\ events = <<>>
    /\ nonce = 0
    /\ inherent_updated = FALSE
    /\ digest = <<>>
    /\ consensus_update_results = <<>>

InitMore ==
    /\ InitLater
    /\ ret = <<>>
    /\ incoming_request_acks = {}
    /\ outgoing_request_acks = <<>>
    /\ frozen_heights = <<>>
    /\ frozen_consensus_clients = <<>>
    /\ consensus_update_time = (ConsensusClientId :> 0)
    /\ now = 0
    /\ pushing = [at |-> <<>>, got |-> <<>>, raced |-> FALSE]
    /\ tcase = <<>>

Init ==
    /\ consensus_states = (ConsensusClientId :> encode(InitialConsensusState))
    /\ state_commitments = <<>>
    /\ call = NoCall
    /\ accepted = <<>>
    /\ jcase = <<>>
    /\ acase = <<>>
    /\ mmr = EmptyMmr
    /\ held = <<>>
    /\ InitMore

\* Host::store_state_machine_commitment for every intermediate state
RECURSIVE store_state_machine_commitments(_, _)
store_state_machine_commitments(commitments, intermediates) ==
    IF DOMAIN intermediates = {} THEN commitments
    ELSE LET id == CHOOSE k \in DOMAIN intermediates : TRUE
         IN  store_state_machine_commitments(
                 insert(commitments, [id |-> id, height |-> intermediates[id].height],
                        intermediates[id].commitment),
                 [k \in DOMAIN intermediates \ {id} |-> intermediates[k]])

\* Host::store_consensus_state
store_consensus_state(states, id, state) == [states EXCEPT ![id] = state]

\* handle_messages for one consensus message. It hands the message to
\* handle_incoming_message of the ismp crate, which reads the stored consensus
\* state through the host, runs verify_consensus on it and, only when that
\* returned Ok, stores the new consensus state and the state commitments
\* through the host's store functions.
handle_messages(message) ==
    /\ LET trusted == consensus_states[ConsensusClientId]
           result == verify_consensus(trusted, message)
       IN  /\ call' = [active |-> TRUE, message |-> message, result |-> result,
                       before |-> [consensus_states |-> consensus_states,
                                   state_commitments |-> state_commitments]]
           /\ IF result.ok
              THEN /\ consensus_states' =
                          store_consensus_state(consensus_states, ConsensusClientId,
                                                result.consensus_state)
                   /\ state_commitments' =
                          store_state_machine_commitments(state_commitments, result.intermediates)
                   /\ accepted' = <<[justification |-> message.finality_proof.justification,
                                     current_set_id |-> decode(trusted).value.current_set_id,
                                     current_authorities |->
                                         decode(trusted).value.current_authorities]>>
              ELSE UNCHANGED <<consensus_states, state_commitments, accepted>>
    /\ UNCHANGED <<jcase, acase, mmr, held, more>>

\* the extrinsic carrying the message ends
Return ==
    /\ call.active
    /\ call' = NoCall
    /\ UNCHANGED <<consensus_states, state_commitments, accepted, jcase, acase, mmr, held, more>>

\* the extrinsic Pallet::handle with one consensus message; extrinsics run one
\* after the other
handle ==
    /\ ~call.active
    /\ \E message \in Messages : handle_messages(message)

Next ==
    \/ handle
    \/ Return

Spec == Init /\ [][Next]_vars

\* ------------------------------------------------- the pallet and its admin

\* BTreeMap::entry(key).or_insert(value) for every key of `keys`
or_insert(map, keys, value) ==
    [k \in DOMAIN map \cup keys |-> IF k \in DOMAIN map THEN map[k] ELSE value]

\* BTreeMap::retain(|key, _| !keys.contains(key))
retain(map, keys) == [k \in DOMAIN map \ keys |-> map[k]]

\* the ids an admin call names, and the parachains it lists
AdminClientIds == {ConsensusClientId, "NONE"}

AdminParaIds == {{3}}

\* the extrinsic add_parachains(consensus_state_id, para_ids) of ismp-grandpa
add_parachains(consensus_state_id, para_ids) ==
    /\ ~call.active
    /\ IF consensus_state_id \notin DOMAIN consensus_states
       THEN UNCHANGED consensus_states
       ELSE LET decoded == decode(consensus_states[consensus_state_id])
            IN  IF ~decoded.ok THEN UNCHANGED consensus_states
                ELSE consensus_states' =
                         store_consensus_state(
                             consensus_states, consensus_state_id,
                             encode([decoded.value EXCEPT
                                        !.para_ids = or_insert(@, para_ids, TRUE)]))
    /\ UNCHANGED <<state_commitments, call, accepted, jcase, acase, mmr, held, more>>

\* fault: the state written back is the trusted initial state less the
\* parachains
remove_parachains_from_initial(consensus_state_id, para_ids) ==
    /\ ~call.active
    /\ IF consensus_state_id \notin DOMAIN consensus_states
       THEN UNCHANGED consensus_states
       ELSE consensus_states' =
                store_consensus_state(
                    consensus_states, consensus_state_id,
                    encode([InitialConsensusState EXCEPT !.para_ids = retain(@, para_ids)]))
    /\ UNCHANGED <<state_commitments, call, accepted, jcase, acase, mmr, held, more>>

\* the extrinsic remove_parachains(consensus_state_id, para_ids) of ismp-grandpa
remove_parachains(consensus_state_id, para_ids) ==
    /\ ~call.active
    /\ IF consensus_state_id \notin DOMAIN consensus_states
       THEN UNCHANGED consensus_states
       ELSE LET decoded == decode(consensus_states[consensus_state_id])
            IN  IF ~decoded.ok THEN UNCHANGED consensus_states
                ELSE consensus_states' =
                         store_consensus_state(
                             consensus_states, consensus_state_id,
                             encode([decoded.value EXCEPT !.para_ids = retain(@, para_ids)]))
    /\ UNCHANGED <<state_commitments, call, accepted, jcase, acase, mmr, held, more>>

\* Pallet::handle with a consensus message whose proof lists at most
\* MaxAdminUnknown headers
handle_short ==
    /\ ~call.active
    /\ \E message \in MessagesOver(DistinctSeqs(HeaderPool, MaxAdminUnknown)) :
          handle_messages(message)

NextAdmin ==
    \/ handle_short
    \/ Return
    \/ \E id \in AdminClientIds, para_ids \in AdminParaIds : add_parachains(id, para_ids)
    \/ \E id \in AdminClientIds, para_ids \in AdminParaIds : remove_parachains(id, para_ids)

SpecAdmin == Init /\ [][NextAdmin]_vars

\* -------------------------------------------------------- justification cases

\* GrandpaJustification::verify on its own: an authority list with weights up
\* to MaxWeight and a justification of h2 in round 1 under set id 0, built one
\* precommit at a time and then verified.

CaseAuthorityLists ==
    {<<[id |-> 1, weight |-> w[1]], [id |-> 2, weight |-> w[2]], [id |-> 3, weight |-> w[3]]>> :
        w \in [1..3 -> 1..MaxWeight]}

\* precommits for the commit target h2, for its parent h1 and for the fork f2,
\* validly signed by each authority, and one for h2 and one for f2 with bytes
\* that are no signature
CasePrecommits ==
    {[precommit |-> [target_hash |-> Hash(t), target_number |-> t.number],
      signature |-> Payload(id, Hash(t), t.number, 1, 0), id |-> id] :
        id \in AuthorityIds, t \in {h2, h1, f2}}
      \cup {[precommit |-> [target_hash |-> Hash(t), target_number |-> t.number],
             signature |-> NoSignature, id |-> 3] : t \in {h2, f2}}

InitCase ==
    /\ consensus_states = (ConsensusClientId :> encode(InitialConsensusState))
    /\ state_commitments = <<>>
    /\ call = NoCall
    /\ accepted = <<>>
    /\ acase = <<>>
    /\ mmr = EmptyMmr
    /\ held = <<>>
    /\ InitMore
    /\ jcase \in {[authorities |-> authorities, set_id |-> 0, verdict |-> "Unverified",
                   justification |->
                       [round |-> 1,
                        commit |-> [target_hash |-> Hash(h2), target_number |-> h2.number,
                                    precommits |-> <<>>],
                        votes_ancestries |-> votes_ancestries]] :
                     authorities \in CaseAuthorityLists, votes_ancestries \in {<<>>, <<h2>>}}

\* the prover appends a precommit to the commit
AddPrecommit(signed) ==
    /\ jcase.verdict = "Unverified"
    /\ Len(jcase.justification.commit.precommits) < MaxPrecommits
    /\ jcase' = [jcase EXCEPT !.justification.commit.precommits = Append(@, signed)]
    /\ UNCHANGED <<consensus_states, state_commitments, call, accepted, acase, mmr, held, more>>

\* justification.verify(set_id, &authorities)
VerifyCase ==
    /\ jcase.verdict = "Unverified"
    /\ jcase' = [jcase EXCEPT !.verdict = verify(jcase.justification, jcase.set_id,
                                                 jcase.authorities)]
    /\ UNCHANGED <<consensus_states, state_commitments, call, accepted, acase, mmr, held, more>>

NextCase ==
    \/ \E signed \in CasePrecommits : AddPrecommit(signed)
    \/ VerifyCase

SpecCase == InitCase /\ [][NextCase]_vars

\* -------------------------------------------------------------- ancestry cases

\* AncestryChain::ancestry on its own, one step of the walk at a time. Only the
\* parent_hash of a header matters to the walk, so a case is any index from
\* some of the hashes 1..MaxHashes to a parent hash in 0..MaxHashes, cyclic and
\* dangling links included, with any `from` and `to`.

CaseHashes == 1..MaxHashes

CaseChains ==
    UNION {[known -> [parent_hash : 0..MaxHashes]] : known \in SUBSET CaseHashes}

InitAncestry ==
    /\ consensus_states = (ConsensusClientId :> encode(InitialConsensusState))
    /\ state_commitments = <<>>
    /\ call = NoCall
    /\ accepted = <<>>
    /\ jcase = <<>>
    /\ acase \in {[chain |-> chain, from |-> from, to |-> to, walk |-> ancestry_start(to)] :
                    chain \in CaseChains, from \in 0..MaxHashes, to \in 0..MaxHashes}
    /\ mmr = EmptyMmr
    /\ held = <<>>
    /\ InitMore

\* the walk of ancestry(from, to) moves on by one step
AncestryStep ==
    /\ acase.walk.status = "Walking"
    /\ acase' = [acase EXCEPT !.walk = ancestry_step(acase.chain, acase.from, @)]
    /\ UNCHANGED <<consensus_states, state_commitments, call, accepted, jcase, mmr, held, more>>

NextAncestry == AncestryStep

SpecAncestry == InitAncestry /\ [][NextAncestry]_vars

\* the walk is a loop of one function: it is not left half way
SpecAncestryRuns == SpecAncestry /\ WF_vars(AncestryStep)

\* ----------------------------------------------------------------------- mmr

\* An MMR node is DataOrHash: Data(leaf), kept off chain, or Hash(hash). The
\* hash of a leaf is the one-element tuple of its content and the hash of an
\* inner node the pair of its children's hashes: no two different inputs
\* have the same hash.
Data(leaf) == [data |-> leaf]

HashNode(h) == [hash |-> h]

\* DataOrHash::hash
node_hash(node) == IF DOMAIN node = {"data"} THEN <<node.data>> ELSE node.hash

\* MmrHasher::merge(left, right)
merge(left, right) == HashNode(<<node_hash(left), node_hash(right)>>)

\* u64::count_ones and u64::trailing_zeros, for the sizes met here
RECURSIVE count_ones(_)
count_ones(n) == IF n = 0 THEN 0 ELSE (n % 2) + count_ones(n \div 2)

RECURSIVE trailing_zeros(_)
trailing_zeros(n) == IF n % 2 = 1 THEN 0 ELSE 1 + trailing_zeros(n \div 2)

RECURSIVE pow2(_)
pow2(n) == IF n = 0 THEN 1 ELSE 2 * pow2(n - 1)

\* NodesUtils::new(no_of_leaves).size(): the number of nodes of an MMR
size(no_of_leaves) == 2 * no_of_leaves - count_ones(no_of_leaves)

\* mmr_lib::leaf_index_to_mmr_size and mmr_lib::leaf_index_to_pos
leaf_index_to_mmr_size(index) == 2 * (index + 1) - count_ones(index + 1)

leaf_index_to_pos(index) ==
    leaf_index_to_mmr_size(index) - trailing_zeros(index + 1) - 1

\* mmr_lib helpers: positions are counted from 0
parent_offset(height) == pow2(height + 1)

sibling_offset(height) == pow2(height + 1) - 1

get_peak_pos_by_height(height) == pow2(height + 1) - 2

\* pos_height_in_tree(pos): jump left until the position (from 1) is all ones
RECURSIVE bit_length(_)
bit_length(n) == IF n = 0 THEN 0 ELSE 1 + bit_length(n \div 2)

RECURSIVE height_of_one_based(_)
height_of_one_based(pos) ==
    IF pos = pow2(bit_length(pos)) - 1 THEN bit_length(pos) - 1
    ELSE height_of_one_based(pos - (pow2(bit_length(pos) - 1) - 1))

pos_height_in_tree(pos) == height_of_one_based(pos + 1)

\* left_peak_height_pos(mmr_size)
RECURSIVE left_peak(_, _, _)
left_peak(mmr_size, height, prev_pos) ==
    IF get_peak_pos_by_height(height) < mmr_size
        THEN left_peak(mmr_size, height + 1, get_peak_pos_by_height(height))
        ELSE [height |-> height - 1, pos |-> prev_pos]

left_peak_height_pos(mmr_size) == left_peak(mmr_size, 1, 0)

\* get_right_peak(height, pos, mmr_size), after the move to the right sibling
RECURSIVE right_peak(_, _, _)
right_peak(height, pos, mmr_size) ==
    IF pos > mmr_size - 1
        THEN IF height = 0 THEN [found |-> FALSE]
             ELSE right_peak(height - 1, pos - parent_offset(height - 1), mmr_size)
        ELSE [found |-> TRUE, height |-> height, pos |-> pos]

get_right_peak(height, pos, mmr_size) ==
    right_peak(height, pos + sibling_offset(height), mmr_size)

\* get_peaks(mmr_size): the peak positions from left to right
RECURSIVE peaks_from(_, _, _)
peaks_from(height, pos, mmr_size) ==
    IF height = 0 THEN <<pos>>
    ELSE LET peak == get_right_peak(height, pos, mmr_size)
         IN  IF ~peak.found THEN <<pos>>
             ELSE <<pos>> \o peaks_from(peak.height, peak.pos, mmr_size)

get_peaks(mmr_size) ==
    LET left == left_peak_height_pos(mmr_size)
    IN  peaks_from(left.height, left.pos, mmr_size)

\* bag_rhs_peaks: the peaks merged from the right
RECURSIVE bag_rhs_peaks(_)
bag_rhs_peaks(rhs_peaks) ==
    IF Len(rhs_peaks) <= 1 THEN rhs_peaks
    ELSE LET n == Len(rhs_peaks)
         IN  bag_rhs_peaks(Append(SubSeq(rhs_peaks, 1, n - 2),
                                  merge(rhs_peaks[n], rhs_peaks[n - 1])))

\* MMRStore::get_elem(pos) on a sequence of nodes
get_elem(nodes, pos) == IF pos + 1 \in DOMAIN nodes THEN <<nodes[pos + 1]>> ELSE <<>>

\* MMR::push(elem) on the nodes pushed so far: the leaf, then a parent for
\* every pair of equal-height peaks it completes
RECURSIVE push_parents(_, _)
push_parents(nodes, height) ==
    IF pos_height_in_tree(Len(nodes)) > height
        THEN LET left == nodes[Len(nodes) + 1 - sibling_offset(height) - 1]
                 right == nodes[Len(nodes)]
             IN  push_parents(Append(nodes, merge(left, right)), height + 1)
        ELSE nodes

mmr_lib_push(nodes, elem) == push_parents(Append(nodes, elem), 0)

\* MMR::get_root
get_root(nodes) ==
    IF Len(nodes) = 0 THEN <<>>
    ELSE IF Len(nodes) = 1 THEN <<nodes[1]>>
    ELSE bag_rhs_peaks([i \in DOMAIN get_peaks(Len(nodes)) |->
                            nodes[get_peaks(Len(nodes))[i] + 1]])

\* the parent and the sibling of the node at pos, taken to be of the given
\* height
family(pos, height) ==
    IF pos_height_in_tree(pos + 1) > height
        THEN [right |-> TRUE, parent_pos |-> pos + 1, sib_pos |-> pos - sibling_offset(height)]
        ELSE [right |-> FALSE, parent_pos |-> pos + parent_offset(height),
              sib_pos |-> pos + sibling_offset(height)]

\* take_while_vec(v, |pos| pos <= peak_pos) on a list sorted by position: what
\* is taken, and what is left
taken(v, peak_pos) == SelectSeq(v, LAMBDA e : e.pos <= peak_pos)

left_over(v, peak_pos) == SelectSeq(v, LAMBDA e : e.pos > peak_pos)

\* MMR::gen_proof_for_peak: the loop over the queue of (pos, height)
RECURSIVE gen_proof_queue(_, _, _, _)
gen_proof_queue(nodes, queue, peak_pos, proof) ==
    IF queue = <<>> \/ Head(queue).pos = peak_pos THEN [ok |-> TRUE, err |-> "Ok", proof |-> proof]
    ELSE
    LET node == family(Head(queue).pos, Head(queue).height)
        rest == Tail(queue)
        paired == rest # <<>> /\ Head(rest).pos = node.sib_pos
        after == IF paired THEN Tail(rest) ELSE rest
        next == IF node.parent_pos < peak_pos
                    THEN Append(after, [pos |-> node.parent_pos,
                                        height |-> Head(queue).height + 1])
                    ELSE after
    IN  IF paired THEN gen_proof_queue(nodes, next, peak_pos, proof)
        ELSE IF get_elem(nodes, node.sib_pos) = <<>> THEN Failure("InconsistentStore")
        ELSE gen_proof_queue(nodes, next, peak_pos,
                             proof \o get_elem(nodes, node.sib_pos))

gen_proof_for_peak(nodes, proof, pos_list, peak_pos) ==
    IF Len(pos_list) = 1 /\ pos_list[1].pos = peak_pos
        THEN [ok |-> TRUE, err |-> "Ok", proof |-> proof]
    ELSE IF pos_list = <<>>
        THEN [ok |-> TRUE, err |-> "Ok", proof |-> proof \o get_elem(nodes, peak_pos)]
    ELSE gen_proof_queue(nodes, [i \in DOMAIN pos_list |-> [pos |-> pos_list[i].pos, height |-> 0]],
                         peak_pos, proof)

\* MMR::gen_proof: the loop over the peaks
RECURSIVE gen_proof_peaks(_, _, _, _, _)
gen_proof_peaks(nodes, pos_list, peaks, proof, bagging_track) ==
    IF peaks = <<>>
        THEN IF pos_list # <<>> THEN Failure("GenProofForInvalidLeaves")
             ELSE IF bagging_track > 1
                 THEN [ok |-> TRUE, err |-> "Ok",
                       proof |-> SubSeq(proof, 1, Len(proof) - bagging_track)
                                   \o bag_rhs_peaks(SubSeq(proof, Len(proof) - bagging_track + 1,
                                                           Len(proof)))]
             ELSE [ok |-> TRUE, err |-> "Ok", proof |-> proof]
    ELSE
    LET for_peak == taken(pos_list, Head(peaks))
        generated == gen_proof_for_peak(nodes, proof, for_peak, Head(peaks))
    IN  IF ~generated.ok THEN generated
        ELSE gen_proof_peaks(nodes, left_over(pos_list, Head(peaks)), Tail(peaks),
                             generated.proof,
                             IF for_peak = <<>> THEN bagging_track + 1 ELSE 0)

\* MMR::gen_proof(pos_list): positions are sorted and made unique first
gen_proof(nodes, pos_list) ==
    IF pos_list = <<>> THEN Failure("GenProofForInvalidLeaves")
    ELSE IF Len(nodes) = 1 /\ pos_list = <<0>> THEN [ok |-> TRUE, err |-> "Ok", proof |-> <<>>]
    ELSE LET sorted == SetToSeq(Range(pos_list))
         IN  gen_proof_peaks(nodes, [i \in DOMAIN sorted |-> [pos |-> sorted[i]]],
                             get_peaks(Len(nodes)), <<>>, 0)

\* calculate_peak_root: the loop over the queue of (pos, item, height)
RECURSIVE calculate_peak_root(_, _, _)
calculate_peak_root(queue, peak_pos, proof_iter) ==
    IF queue = <<>> THEN Failure("CorruptedProof")
    ELSE IF Head(queue).pos = peak_pos
        THEN [ok |-> TRUE, err |-> "Ok", item |-> Head(queue).item, proof_iter |-> proof_iter]
    ELSE
    LET node == family(Head(queue).pos, Head(queue).height)
        rest == Tail(queue)
        paired == rest # <<>> /\ Head(rest).pos = node.sib_pos
    IN  IF ~paired /\ proof_iter = <<>> THEN Failure("CorruptedProof")
        ELSE
        LET sibling_item == IF paired THEN Head(rest).item ELSE Head(proof_iter)
            after == IF paired THEN Tail(rest) ELSE rest
            items == IF paired THEN proof_iter ELSE Tail(proof_iter)
            parent_item == IF node.right THEN merge(sibling_item, Head(queue).item)
                           ELSE merge(Head(queue).item, sibling_item)
        IN  IF node.parent_pos < peak_pos
                THEN calculate_peak_root(
                         Append(after, [pos |-> node.parent_pos, item |-> parent_item,
                                        height |-> Head(queue).height + 1]),
                         peak_pos, items)
                ELSE [ok |-> TRUE, err |-> "Ok", item |-> parent_item, proof_iter |-> items]

\* calculate_peaks_hashes: the loop over the peaks, then the check that no
\* leaf and at most one proof item (the bagged right-hand peaks) is left
RECURSIVE calculate_peaks(_, _, _, _)
calculate_peaks(leaves, peaks, proof_iter, peaks_hashes) ==
    LET done == IF leaves # <<>> THEN Failure("CorruptedProof")
                ELSE IF Len(proof_iter) > 1 THEN Failure("CorruptedProof")
                ELSE [ok |-> TRUE, err |-> "Ok", peaks_hashes |-> peaks_hashes \o proof_iter]
    IN  IF peaks = <<>> THEN done
        ELSE
        LET for_peak == taken(leaves, Head(peaks))
            others == left_over(leaves, Head(peaks))
        IN  IF Len(for_peak) = 1 /\ for_peak[1].pos = Head(peaks)
                THEN calculate_peaks(others, Tail(peaks), proof_iter,
                                     Append(peaks_hashes, for_peak[1].item))
            ELSE IF for_peak = <<>>
                THEN IF proof_iter = <<>>
                        THEN IF others # <<>> THEN Failure("CorruptedProof")
                             ELSE [ok |-> TRUE, err |-> "Ok", peaks_hashes |-> peaks_hashes]
                        ELSE calculate_peaks(others, Tail(peaks), Tail(proof_iter),
                                             Append(peaks_hashes, Head(proof_iter)))
            ELSE LET root == calculate_peak_root(
                                 [i \in DOMAIN for_peak |->
                                     [pos |-> for_peak[i].pos, item |-> for_peak[i].item,
                                      height |-> 0]],
                                 Head(peaks), proof_iter)
                 IN  IF ~root.ok THEN root
                     ELSE calculate_peaks(others, Tail(peaks), root.proof_iter,
                                          Append(peaks_hashes, root.item))

\* Vec::sort_by_key(|(pos, _)| pos): a stable sort
RECURSIVE sort_by_key(_)
sort_by_key(leaves) ==
    IF leaves = <<>> THEN <<>>
    ELSE LET least == CHOOSE i \in DOMAIN leaves :
                          /\ \A k \in DOMAIN leaves : leaves[i].pos <= leaves[k].pos
                          /\ \A k \in 1..(i - 1) : leaves[i].pos < leaves[k].pos
         IN  <<leaves[least]>>
               \o sort_by_key(SubSeq(leaves, 1, least - 1)
                               \o SubSeq(leaves, least + 1, Len(leaves)))

\* MerkleProof::new(mmr_size, proof).calculate_root(leaves)
calculate_root(mmr_size, proof, leaves) ==
    IF mmr_size = 1 /\ Len(leaves) = 1 /\ leaves[1].pos = 0
        THEN [ok |-> TRUE, err |-> "Ok", root |-> leaves[1].item]
    ELSE LET peaks_hashes == calculate_peaks(sort_by_key(leaves), get_peaks(mmr_size), proof, <<>>)
         IN  IF ~peaks_hashes.ok THEN peaks_hashes
             ELSE IF peaks_hashes.peaks_hashes = <<>> THEN Failure("CorruptedProof")
             ELSE [ok |-> TRUE, err |-> "Ok",
                   root |-> bag_rhs_peaks(peaks_hashes.peaks_hashes)[1]]

\* -------------------------------------------------- the pallet's mountain range

\* the leaves dispatched: requests and responses told apart by their content
LeafPool == {1, 2}

\* the batch of a push reaches storage: the nodes are appended and
\* NumberOfLeaves goes up by the leaves among them
append(store, elems) ==
    [store EXCEPT !.nodes = elems,
                  !.number_of_leaves = @ + 1,
                  !.finalized = FALSE]

\* Pallet::mmr_push: the position MMR::push returns is what the caller gets
\* and what is filed off chain as the leaf's index
mmr_push_position(store) == size(store.number_of_leaves)

\* fault: the new root is chained to the one committed before
on_finalize_chained(store) ==
    IF store.number_of_leaves # 0
        THEN [store EXCEPT !.root_hash = <<@, node_hash(get_root(store.nodes)[1])>>,
                           !.finalized = TRUE]
        ELSE [store EXCEPT !.finalized = TRUE]

\* Hooks::on_finalize: with leaves in the range, its root goes to RootHash
on_finalize(store) ==
    IF store.number_of_leaves # 0
        THEN [store EXCEPT !.root_hash = node_hash(get_root(store.nodes)[1]), !.finalized = TRUE]
        ELSE [store EXCEPT !.finalized = TRUE]

\* H256::default(), also what RootHash reads as before it is first written
H256_default == <<>>

\* fault: the log carries the root committed before this block
on_finalize_digest_stale(store) == [consensus |-> "ISMP", root |-> store.root_hash]

\* Hooks::on_finalize: the log deposited, DigestItem::Consensus(ISMP_ID, root)
\* with the root just committed, or the default root when there are no leaves
on_finalize_digest(store) ==
    [consensus |-> "ISMP",
     root |-> IF store.number_of_leaves # 0 THEN on_finalize(store).root_hash ELSE H256_default]

\* Mmr<OffchainStorage>::generate_proof under Pallet::generate_proof
generate_proof(store, leaf_indices) ==
    LET positions == [i \in DOMAIN leaf_indices |-> leaf_index_to_pos(leaf_indices[i])]
        elems == [i \in DOMAIN positions |-> get_elem(store.nodes, positions[i])]
        found(elem) == elem # <<>> /\ "data" \in DOMAIN elem[1]
        p == gen_proof(store.nodes, positions)
    IN  IF \E i \in DOMAIN elems : ~found(elems[i]) THEN Failure("LeafNotFound")
        ELSE IF ~p.ok THEN Failure("GenerateProof")
        ELSE [ok |-> TRUE, err |-> "Ok",
              leaves |-> [i \in DOMAIN elems |-> elems[i][1].data],
              proof |-> [leaf_indices |-> leaf_indices,
                         leaf_count |-> store.number_of_leaves,
                         items |-> [i \in DOMAIN p.proof |-> node_hash(p.proof[i])]]]

\* fault: the size is taken from the leaves now in storage
current_mmr_size(proof) == size(mmr.number_of_leaves)

\* the size a proof is checked under: that of the leaf_count it carries
proof_mmr_size(proof) == size(proof.leaf_count)

\* how a proof is checked: the items as hashes, the leaves as data paired with
\* the proof's leaf_indices, calculate_root under mmr_size, and the hash of
\* the result against the root
verify_proof(root, mmr_size, leaf_indices, leaves, items) ==
    LET nodes == [i \in DOMAIN items |-> HashNode(items[i])]
        paired == [i \in 1..(IF Len(leaf_indices) < Len(leaves) THEN Len(leaf_indices)
                             ELSE Len(leaves)) |->
                      [pos |-> leaf_indices[i], item |-> Data(leaves[i])]]
        calculated_root == calculate_root(mmr_size, nodes, paired)
    IN  calculated_root.ok /\ root = node_hash(calculated_root.root)

\* fault: the leaf counter is written although MMR::push failed
mmr_push_counting_failures(store, leaf, store_ok) ==
    IF store_ok
        THEN [store |-> [append(store, mmr_lib_push(store.nodes, Data(leaf)))
                            EXCEPT !.leaf_index_offchain =
                                       [k \in DOMAIN @ \cup {leaf} |-> IF k = leaf THEN mmr_push_position(store) ELSE @[k]]],
              pos |-> <<mmr_push_position(store)>>]
        ELSE [store |-> [store EXCEPT !.number_of_leaves = @ + 1], pos |-> <<>>]

\* Pallet::mmr_push: Some(position), with the leaf stored and the position
\* filed off chain under the leaf's key, or None with nothing written when
\* MMR::push fails (store_ok: the store yields the nodes the push reads)
mmr_push(store, leaf, store_ok) ==
    IF store_ok
        THEN [store |-> [append(store, mmr_lib_push(store.nodes, Data(leaf)))
                            EXCEPT !.leaf_index_offchain =
                                       [k \in DOMAIN @ \cup {leaf} |-> IF k = leaf THEN mmr_push_position(store) ELSE @[k]]],
              pos |-> <<mmr_push_position(store)>>]
        ELSE [store |-> store, pos |-> <<>>]

\* a request or response is dispatched: its leaf is pushed
MmrPush(leaf) ==
    /\ mmr.number_of_leaves < MaxLeaves
    /\ mmr' = mmr_push(mmr, leaf, TRUE).store
    /\ UNCHANGED <<consensus_states, state_commitments, call, accepted, jcase, acase, held, more>>

\* the block ends: the root is committed and the log deposited in the
\* block's digest
OnFinalize ==
    /\ mmr' = on_finalize(mmr)
    /\ digest' = <<on_finalize_digest(mmr)>>
    /\ UNCHANGED <<consensus_states, state_commitments, call, accepted, jcase, acase, held, ret,
                   incoming_request_acks, outgoing_request_acks, frozen_heights,
                   frozen_consensus_clients, consensus_update_time, now, pushing, tcase,
                   incoming_response_acks, events, nonce, inherent_updated,
                   consensus_update_results>>

\* a relayer asks a node for a proof on the state of a block, and keeps it
\* with the root of that block; a run follows the one proof it holds (a
\* later proof is the proof of a run that asked for none before)
GenerateProof(leaf_indices) ==
    /\ mmr.finalized
    /\ held = <<>>
    /\ held' = [leaf_indices |-> leaf_indices,
                leaves_then |-> mmr.number_of_leaves,
                root |-> mmr.root_hash,
                result |-> generate_proof(mmr, leaf_indices)]
    /\ UNCHANGED <<consensus_states, state_commitments, call, accepted, jcase, acase, mmr, more>>

NextMmr ==
    \/ \E leaf \in LeafPool : MmrPush(leaf)
    \/ OnFinalize
    \/ \E leaf_indices \in DistinctSeqs(0..size(mmr.number_of_leaves), MaxProven) \ {<<>>} :
            GenerateProof(leaf_indices)

SpecMmr == Init /\ [][NextMmr]_vars

\* --------------------------------------------------- membership of requests

\* the MembershipProof a relayer makes of the proof it holds: the size of the
\* range, the positions of the proven leaves and the proof's hashes
MembershipProof(proof) ==
    [mmr_size |-> proof_mmr_size(proof),
     leaf_indices |-> [i \in DOMAIN proof.leaf_indices |-> leaf_index_to_pos(proof.leaf_indices[i])],
     proof |-> proof.items]

\* the requests of a submitted item
Items == SeqsUpTo(LeafPool, MaxProven) \ {<<>>}

\* StateMachineClient::verify_membership of GrandpaStateMachine and of
\* ParachainStateMachine: the proof's positions zipped with the requests,
\* the root calculated from the pairs and compared with the overlay root
verify_membership(item, overlay_root, membership) ==
    IF overlay_root = <<>> THEN "ISMP root should not be None"
    ELSE IF verify_proof(overlay_root, membership.mmr_size, membership.leaf_indices, item,
                         membership.proof)
    THEN "Ok"
    ELSE "Invalid membership proof"

\* a relayer submits requests with the proof it holds, against the state
\* commitment that carries the root of the block the proof was made in
VerifyMembership(item) ==
    /\ held # <<>>
    /\ held.result.ok
    /\ ret' = [op |-> "verify_membership", arg |-> item,
               outcome |-> verify_membership(item, held.root, MembershipProof(held.result.proof))]
    /\ UNCHANGED <<consensus_states, state_commitments, call, accepted, jcase, acase, mmr, held,
                   incoming_request_acks, outgoing_request_acks, frozen_heights,
                   frozen_consensus_clients, consensus_update_time, now, pushing, tcase, later>>

NextMembership ==
    \/ \E leaf \in LeafPool : MmrPush(leaf)
    \/ OnFinalize
    \/ \E leaf_indices \in DistinctSeqs(0..(MaxLeaves - 1), MaxProven) \ {<<>>} :
            GenerateProof(leaf_indices)
    \/ \E item \in Items : VerifyMembership(item)

SpecMembership == Init /\ [][NextMembership]_vars

\* ------------------------------------------------ requests through the router

\* the requests dispatched, told apart by their nonce
Requests == 1..MaxRequests

\* hash_request: the commitment of a request
hash_request(request) == <<request>>

\* Pallet::mmr_push called as the tests do, the returned Option kept
PalletMmrPush(leaf, store_ok) ==
    /\ mmr.number_of_leaves < MaxLeaves
    /\ mmr' = mmr_push(mmr, leaf, store_ok).store
    /\ ret' = [op |-> "mmr_push", arg |-> leaf, result |-> mmr_push(mmr, leaf, store_ok).pos]
    /\ UNCHANGED <<consensus_states, state_commitments, call, accepted, jcase, acase, held,
                   incoming_request_acks, outgoing_request_acks, frozen_heights,
                   frozen_consensus_clients, consensus_update_time, now, pushing, tcase, later>>

\* the responses dispatched: the response to request n is leaf -n
Responses == {0 - request : request \in Requests}

\* hash_response: the commitment of a response
hash_response(response) == <<response>>

\* Event::Request and Event::Response, as deposited by the router
RequestEvent(request) == [kind |-> "Request", request_nonce |-> request]

ResponseEvent(response) == [kind |-> "Response", request_nonce |-> 0 - response]

\* fault: the receipt is not looked up before the push
HandleRequestUnchecked(request, store_ok) ==
    /\ mmr.number_of_leaves < MaxLeaves
    /\ IF mmr_push(mmr, request, store_ok).pos = <<>>
          THEN /\ ret' = [op |-> "handle_request", arg |-> request,
                          outcome |-> "Failed to push request into mmr"]
               /\ mmr' = mmr_push(mmr, request, store_ok).store
               /\ UNCHANGED <<incoming_request_acks, events>>
          ELSE /\ ret' = [op |-> "handle_request", arg |-> request, outcome |-> "DispatchSuccess"]
               /\ mmr' = mmr_push(mmr, request, store_ok).store
               /\ events' = Append(events, RequestEvent(request))
               /\ incoming_request_acks' = incoming_request_acks \cup {hash_request(request)}
    /\ UNCHANGED <<consensus_states, state_commitments, call, accepted, jcase, acase, held,
                   outgoing_request_acks, frozen_heights, frozen_consensus_clients,
                   consensus_update_time, now, pushing, tcase, incoming_response_acks, nonce,
                   inherent_updated, digest, consensus_update_results>>

\* ProxyRouter::handle_request for a request to another chain: refused when a
\* receipt for its commitment exists, else pushed, the event deposited and
\* the receipt written
HandleRequest(request, store_ok) ==
    /\ mmr.number_of_leaves < MaxLeaves
    /\ IF hash_request(request) \in incoming_request_acks
          THEN /\ ret' = [op |-> "handle_request", arg |-> request, outcome |-> "Duplicate request"]
               /\ UNCHANGED <<mmr, incoming_request_acks, events>>
          ELSE IF mmr_push(mmr, request, store_ok).pos = <<>>
          THEN /\ ret' = [op |-> "handle_request", arg |-> request,
                          outcome |-> "Failed to push request into mmr"]
               /\ mmr' = mmr_push(mmr, request, store_ok).store
               /\ UNCHANGED <<incoming_request_acks, events>>
          ELSE /\ ret' = [op |-> "handle_request", arg |-> request, outcome |-> "DispatchSuccess"]
               /\ mmr' = mmr_push(mmr, request, store_ok).store
               /\ events' = Append(events, RequestEvent(request))
               /\ incoming_request_acks' = incoming_request_acks \cup {hash_request(request)}
    /\ UNCHANGED <<consensus_states, state_commitments, call, accepted, jcase, acase, held,
                   outgoing_request_acks, frozen_heights, frozen_consensus_clients,
                   consensus_update_time, now, pushing, tcase, incoming_response_acks, nonce,
                   inherent_updated, digest, consensus_update_results>>

\* ProxyRouter::handle_response for a response to another chain: refused when
\* a receipt for its commitment exists, else pushed, the event deposited and
\* the receipt written
HandleResponse(response, store_ok) ==
    /\ mmr.number_of_leaves < MaxLeaves
    /\ IF hash_response(response) \in incoming_response_acks
          THEN /\ ret' = [op |-> "handle_response", arg |-> response,
                          outcome |-> "Duplicate response"]
               /\ UNCHANGED <<mmr, incoming_response_acks, events>>
          ELSE IF mmr_push(mmr, response, store_ok).pos = <<>>
          THEN /\ ret' = [op |-> "handle_response", arg |-> response,
                          outcome |-> "Failed to push response into mmr"]
               /\ mmr' = mmr_push(mmr, response, store_ok).store
               /\ UNCHANGED <<incoming_response_acks, events>>
          ELSE /\ ret' = [op |-> "handle_response", arg |-> response, outcome |-> "DispatchSuccess"]
               /\ mmr' = mmr_push(mmr, response, store_ok).store
               /\ events' = Append(events, ResponseEvent(response))
               /\ incoming_response_acks' = incoming_response_acks \cup {hash_response(response)}
    /\ UNCHANGED <<consensus_states, state_commitments, call, accepted, jcase, acase, held,
                   incoming_request_acks, outgoing_request_acks, frozen_heights,
                   frozen_consensus_clients, consensus_update_time, now, pushing, tcase,
                   nonce, inherent_updated, digest, consensus_update_results>>

\* fault: the request's leaf is taken out of the range
DeleteRequestCommitmentAndLeaf(request) ==
    /\ outgoing_request_acks' =
           [k \in DOMAIN outgoing_request_acks \ {hash_request(request)} |->
               outgoing_request_acks[k]]
    /\ mmr' = [mmr EXCEPT !.nodes = SelectSeq(@, LAMBDA node : node # Data(request))]
    /\ ret' = [op |-> "delete_request_commitment", arg |-> request, outcome |-> "Ok"]
    /\ UNCHANGED <<consensus_states, state_commitments, call, accepted, jcase, acase, held,
                   incoming_request_acks, frozen_heights, frozen_consensus_clients,
                   consensus_update_time, now, pushing, tcase, later>>

\* Host::delete_request_commitment, as timeout and response processing call
\* it: the entry of OutgoingRequestAcks goes
DeleteRequestCommitment(request) ==
    /\ outgoing_request_acks' =
           [k \in DOMAIN outgoing_request_acks \ {hash_request(request)} |->
               outgoing_request_acks[k]]
    /\ ret' = [op |-> "delete_request_commitment", arg |-> request, outcome |-> "Ok"]
    /\ UNCHANGED <<consensus_states, state_commitments, call, accepted, jcase, acase, mmr, held,
                   incoming_request_acks, frozen_heights, frozen_consensus_clients,
                   consensus_update_time, now, pushing, tcase, later>>

NextDispatch ==
    \/ \E leaf \in Requests, store_ok \in BOOLEAN : PalletMmrPush(leaf, store_ok)
    \/ \E request \in Requests, store_ok \in BOOLEAN : HandleRequest(request, store_ok)
    \/ \E request \in Requests : DeleteRequestCommitment(request)
    \/ OnFinalize

SpecDispatch == Init /\ [][NextDispatch]_vars

\* requests and responses to other chains, dispatched through the router
NextRouter ==
    \/ \E request \in Requests, store_ok \in BOOLEAN : HandleRequest(request, store_ok)
    \/ \E response \in Responses, store_ok \in BOOLEAN : HandleResponse(response, store_ok)

SpecRouter == Init /\ [][NextRouter]_vars

\* ------------------------------------------------ receipts of requests

\* the requests other chains address to this one, told apart from those this
\* chain sends
ReceivedRequests == {MaxRequests + request : request \in Requests}

\* Host::request_receipt: Some(()) when IncomingRequestAcks has the commitment
request_receipt(acks, req) == IF hash_request(req) \in acks THEN "Some" ELSE "None"

\* Host::store_request_receipt, as the handler of incoming requests calls it
StoreRequestReceipt(req) ==
    /\ incoming_request_acks' = incoming_request_acks \cup {hash_request(req)}
    /\ ret' = [op |-> "store_request_receipt", arg |-> req, outcome |-> "Ok"]
    /\ UNCHANGED <<consensus_states, state_commitments, call, accepted, jcase, acase, mmr, held,
                   outgoing_request_acks, frozen_heights, frozen_consensus_clients,
                   consensus_update_time, now, pushing, tcase, later>>

\* Host::request_receipt called, the result kept
RequestReceipt(req) ==
    /\ ret' = [op |-> "request_receipt", arg |-> req,
               outcome |-> request_receipt(incoming_request_acks, req)]
    /\ UNCHANGED <<consensus_states, state_commitments, call, accepted, jcase, acase, mmr, held,
                   incoming_request_acks, outgoing_request_acks, frozen_heights,
                   frozen_consensus_clients, consensus_update_time, now, pushing, tcase, later>>

NextReceipt ==
    \/ \E request \in Requests, store_ok \in BOOLEAN : HandleRequest(request, store_ok)
    \/ \E req \in ReceivedRequests : StoreRequestReceipt(req)
    \/ \E req \in Requests \cup ReceivedRequests : RequestReceipt(req)

SpecReceipt == Init /\ [][NextReceipt]_vars

\* ------------------------------------------- timeouts and answered requests

\* how many requests this chain sends
MaxSent == 3

\* the Get requests this chain sends, told apart by their nonce
Gets == 0..(MaxSent - 1)

\* Host::next_nonce: the stored nonce is returned and the next one stored
next_nonce(stored) == [value |-> stored, stored |-> stored + 1]

\* the LeafIndexQuery kept for a request sent
LeafIndexQuery(request) == [nonce |-> request]

\* Host::request_commitment: Ok with the commitment when OutgoingRequestAcks
\* has it, else the error
request_commitment(acks, req) ==
    IF hash_request(req) \in DOMAIN acks THEN "Ok" ELSE "RequestCommitmentNotFound"

\* fault: the entry is left in place
delete_request_commitment_kept(acks, req) == acks

\* Host::delete_request_commitment: OutgoingRequestAcks::remove
delete_request_commitment(acks, req) ==
    [k \in DOMAIN acks \ {hash_request(req)} |-> acks[k]]

\* IsmpDispatch::dispatch_message for a Get, as the tests call it: the request
\* takes the next nonce and its commitment is kept in OutgoingRequestAcks
DispatchMessage ==
    /\ nonce < MaxSent
    /\ nonce' = next_nonce(nonce).stored
    /\ outgoing_request_acks' =
           [k \in DOMAIN outgoing_request_acks \cup {hash_request(next_nonce(nonce).value)} |->
               IF k = hash_request(next_nonce(nonce).value)
                   THEN LeafIndexQuery(next_nonce(nonce).value)
                   ELSE outgoing_request_acks[k]]
    /\ ret' = [op |-> "dispatch_message", arg |-> next_nonce(nonce).value, outcome |-> "Ok"]
    /\ UNCHANGED <<consensus_states, state_commitments, call, accepted, jcase, acase, mmr, held,
                   incoming_request_acks, frozen_heights, frozen_consensus_clients,
                   consensus_update_time, now, pushing, tcase, incoming_response_acks, events,
                   inherent_updated, digest, consensus_update_results>>

\* handle_messages with a TimeoutMessage::Get of one request: the handler asks
\* the host for the request's commitment, stops on an error, and else has the
\* commitment deleted; the pallet returns Ok whatever the handler returned
HandleTimeout(request) ==
    /\ IF request_commitment(outgoing_request_acks, request) # "Ok"
          THEN /\ ret' = [op |-> "handle_timeout", arg |-> request,
                          outcome |-> request_commitment(outgoing_request_acks, request)]
               /\ UNCHANGED outgoing_request_acks
          ELSE /\ ret' = [op |-> "handle_timeout", arg |-> request, outcome |-> "Ok"]
               /\ outgoing_request_acks' =
                      delete_request_commitment(outgoing_request_acks, request)
    /\ UNCHANGED <<consensus_states, state_commitments, call, accepted, jcase, acase, mmr, held,
                   incoming_request_acks, frozen_heights, frozen_consensus_clients,
                   consensus_update_time, now, pushing, tcase, incoming_response_acks, events,
                   nonce, inherent_updated, digest, consensus_update_results>>

\* handle_messages with a ResponseMessage::Get for one request: the
\* commitment is asked for, then the proof of the values is checked
\* (proof_ok), and on success the commitment is deleted
HandleGetResponse(request, proof_ok) ==
    /\ IF request_commitment(outgoing_request_acks, request) # "Ok"
          THEN /\ ret' = [op |-> "handle_get_response", arg |-> request,
                          outcome |-> request_commitment(outgoing_request_acks, request)]
               /\ UNCHANGED outgoing_request_acks
          ELSE IF ~proof_ok
          THEN /\ ret' = [op |-> "handle_get_response", arg |-> request,
                          outcome |-> "InvalidProof"]
               /\ UNCHANGED outgoing_request_acks
          ELSE /\ ret' = [op |-> "handle_get_response", arg |-> request, outcome |-> "Ok"]
               /\ outgoing_request_acks' =
                      delete_request_commitment(outgoing_request_acks, request)
    /\ UNCHANGED <<consensus_states, state_commitments, call, accepted, jcase, acase, mmr, held,
                   incoming_request_acks, frozen_heights, frozen_consensus_clients,
                   consensus_update_time, now, pushing, tcase, incoming_response_acks, events,
                   nonce, inherent_updated, digest, consensus_update_results>>

\* Host::request_commitment called from outside, the result kept
RequestCommitment(request) ==
    /\ ret' = [op |-> "request_commitment", arg |-> request,
               outcome |-> request_commitment(outgoing_request_acks, request)]
    /\ UNCHANGED <<consensus_states, state_commitments, call, accepted, jcase, acase, mmr, held,
                   incoming_request_acks, outgoing_request_acks, frozen_heights,
                   frozen_consensus_clients, consensus_update_time, now, pushing, tcase, later>>

NextTimeout ==
    \/ DispatchMessage
    \/ \E request \in Gets : HandleTimeout(request)
    \/ \E request \in Gets, proof_ok \in BOOLEAN : HandleGetResponse(request, proof_ok)
    \/ \E request \in Gets : RequestCommitment(request)

SpecTimeout == Init /\ [][NextTimeout]_vars

\* ------------------------------------------------------- pushes under way

Pushers == 1..MaxPushers

\* the store as a push that read `leaves` sees it: Mmr::new(leaves)
mmr_new(store, leaves) ==
    [store EXCEPT !.number_of_leaves = leaves,
                  !.nodes = SubSeq(@, 1, size(leaves))]

\* what the push leaves in storage: its nodes and counter written, the
\* nodes stored above them still there
written(store, pushed) ==
    [pushed EXCEPT !.nodes = @ \o SubSeq(store.nodes, Len(@) + 1, Len(store.nodes))]

\* Pallet::mmr_push up to and with its read of NumberOfLeaves
PushRead(p, leaf) ==
    /\ p \notin DOMAIN pushing.at
    /\ Len(pushing.got) + Cardinality(DOMAIN pushing.at) < MaxPushes
    /\ pushing' = [pushing EXCEPT
                       !.at = [q \in DOMAIN @ \cup {p} |->
                                  IF q = p THEN [leaf |-> leaf, leaves |-> mmr.number_of_leaves]
                                           ELSE @[q]],
                       !.raced = @ \/ DOMAIN pushing.at # {}]
    /\ UNCHANGED <<consensus_states, state_commitments, call, accepted, jcase, acase, mmr, held,
                   ret, incoming_request_acks, outgoing_request_acks, frozen_heights,
                   frozen_consensus_clients, consensus_update_time, now, tcase, later>>

\* fault: the counter is read again when the push is written
PushWriteRereading(p) ==
    /\ p \in DOMAIN pushing.at
    /\ mmr' = mmr_push(mmr, pushing.at[p].leaf, TRUE).store
    /\ pushing' = [pushing EXCEPT
                       !.at = [q \in DOMAIN @ \ {p} |-> @[q]],
                       !.got = Append(@, [by |-> p, leaf |-> pushing.at[p].leaf,
                                          leaves |-> pushing.at[p].leaves,
                                          pos |-> mmr_push(mmr, pushing.at[p].leaf, TRUE).pos[1]])]
    /\ UNCHANGED <<consensus_states, state_commitments, call, accepted, jcase, acase, held,
                   ret, incoming_request_acks, outgoing_request_acks, frozen_heights,
                   frozen_consensus_clients, consensus_update_time, now, tcase, later>>

\* the rest of Pallet::mmr_push: the leaf pushed onto the range of the
\* leaves read, the counter written, the position returned
PushWrite(p) ==
    /\ p \in DOMAIN pushing.at
    /\ mmr' = written(mmr, mmr_push(mmr_new(mmr, pushing.at[p].leaves),
                                    pushing.at[p].leaf, TRUE).store)
    /\ pushing' = [pushing EXCEPT
                       !.at = [q \in DOMAIN @ \ {p} |-> @[q]],
                       !.got = Append(@, [by |-> p, leaf |-> pushing.at[p].leaf,
                                          leaves |-> pushing.at[p].leaves,
                                          pos |-> mmr_push(mmr_new(mmr, pushing.at[p].leaves),
                                                           pushing.at[p].leaf, TRUE).pos[1]])]
    /\ UNCHANGED <<consensus_states, state_commitments, call, accepted, jcase, acase, held,
                   ret, incoming_request_acks, outgoing_request_acks, frozen_heights,
                   frozen_consensus_clients, consensus_update_time, now, tcase, later>>

NextRace ==
    \/ \E p \in Pushers, leaf \in Requests : PushRead(p, leaf)
    \/ \E p \in Pushers : PushWrite(p)

SpecRace == Init /\ [][NextRace]_vars

\* ------------------------------------------------------- state proof reads

\* keys of the trie: two nibbles, a nibble being 0 or 1
Nibbles == {0, 1}
TrieKeys == {<<a, b>> : a \in Nibbles, b \in Nibbles}

\* the value stored under every inserted key
TrieValue == 1

\* the null node, of which the empty trie is made
EmptyNode == [kind |-> "Empty"]

\* the hash of a node, by which a parent refers to it
hash_of(node) == <<node>>

IsPrefix(p, s) == Len(p) <= Len(s) /\ SubSeq(s, 1, Len(p)) = p

RECURSIVE common_prefix(_)
\* the longest prefix the key rests of a set share
common_prefix(rests) ==
    IF \E n \in Nibbles : \A r \in rests : Len(r) > 0 /\ r[1] = n
        THEN <<(CHOOSE r \in rests : TRUE)[1]>>
                 \o common_prefix({SubSeq(r, 2, Len(r)) : r \in rests})
        ELSE <<>>

\* the rests left below the child of nibble n of a branch of partial key cp
below(rests, cp, n) ==
    {SubSeq(r, Len(cp) + 2, Len(r)) : r \in {q \in rests : q[Len(cp) + 1] = n}}

RECURSIVE build_node(_)
\* the node committing a non-empty set of key rests: a leaf for one, else a
\* branch on the nibble after their common prefix
build_node(rests) ==
    IF Cardinality(rests) = 1
        THEN [kind |-> "Leaf", partial |-> CHOOSE r \in rests : TRUE, value |-> TrieValue]
        ELSE [kind |-> "Branch", partial |-> common_prefix(rests),
              children |-> [n \in Nibbles |->
                  IF below(rests, common_prefix(rests), n) = {} THEN <<>>
                  ELSE hash_of(build_node(below(rests, common_prefix(rests), n)))]]

\* the root node of the trie in which `inserted` was committed
trie_root(inserted) == IF inserted = {} THEN EmptyNode ELSE build_node(inserted)

RECURSIVE nodes_of(_)
\* a node and all the nodes below it
nodes_of(node) ==
    IF node.kind = "Branch"
        THEN {node} \cup UNION {nodes_of(node.children[n][1]) :
                                   n \in {k \in Nibbles : node.children[k] # <<>>}}
        ELSE {node}

\* StorageProof::into_memory_db: the nodes filed under their hashes, the null
\* node being in every MemoryDB
into_memory_db(proof) == proof \cup {EmptyNode}

\* HashDB::contains
contains(db, h) == h[1] \in db

\* fault: a node the proof lacks is read as the end of the path
missing_node_as_absent(h) == [ok |-> TRUE, err |-> "Ok", value |-> <<>>]

\* a node referred to is not in the database: the read fails
missing_node(h) == [ok |-> FALSE, err |-> "IncompleteDatabase", value |-> <<>>]

Read(value) == [ok |-> TRUE, err |-> "Ok", value |-> value]

RECURSIVE trie_get(_, _, _)
\* TrieDB::get from the node of hash h for the rest of a key
trie_get(db, h, rest) ==
    IF ~contains(db, h) THEN missing_node(h)
    ELSE IF h[1].kind = "Empty" THEN Read(<<>>)
    ELSE IF h[1].kind = "Leaf"
        THEN IF h[1].partial = rest THEN Read(<<h[1].value>>) ELSE Read(<<>>)
    ELSE IF ~IsPrefix(h[1].partial, rest) \/ Len(rest) = Len(h[1].partial) THEN Read(<<>>)
    ELSE IF h[1].children[rest[Len(h[1].partial) + 1]] = <<>> THEN Read(<<>>)
    ELSE trie_get(db, h[1].children[rest[Len(h[1].partial) + 1]],
                  SubSeq(rest, Len(h[1].partial) + 2, Len(rest)))

\* the Result of a read as the caller gets it
read_result(got, msg) == IF got.ok THEN got ELSE [got EXCEPT !.err = msg]

\* parachain read_proof_check for one key, the proof being its nodes
read_proof_check_of_nodes(root, proof, key) ==
    IF ~contains(into_memory_db(proof), root)
        THEN [ok |-> FALSE, err |-> "Invalid Proof", value |-> <<>>]
        ELSE read_result(trie_get(into_memory_db(proof), root, key), "Error reading from trie")

\* grandpa verify_state_proof for one key
verify_state_proof(root, proof, key) ==
    read_result(trie_get(into_memory_db(proof), root, key), "Error reading state proof")

\* sets of at most n elements of S
SubsetsUpTo(S, n) == {T \in SUBSET S : Cardinality(T) <= n}

\* the tries that may have been committed
Committed == SubsetsUpTo(TrieKeys, MaxInserted)

\* the proofs handed in for a trie: its nodes, some of them missing, with or
\* without the nodes of another trie
ProofsOf(inserted) ==
    {(nodes_of(trie_root(inserted)) \ missing) \cup foreign :
        missing \in SubsetsUpTo(nodes_of(trie_root(inserted)), MaxMissing),
        foreign \in {{}} \cup {nodes_of(trie_root(other)) : other \in Committed}}

\* the reads to make of a committed trie: of any key, from any of its proofs
TrieCases(inserted) ==
    {[inserted |-> inserted, key |-> key, proof |-> proof,
      root |-> hash_of(trie_root(inserted)), read |-> <<>>, verified |-> <<>>] :
        key \in TrieKeys, proof \in ProofsOf(inserted)}

InitTrie ==
    /\ InitLater
    /\ consensus_states = (ConsensusClientId :> encode(InitialConsensusState))
    /\ state_commitments = <<>>
    /\ call = NoCall
    /\ accepted = <<>>
    /\ jcase = <<>>
    /\ acase = <<>>
    /\ mmr = EmptyMmr
    /\ held = <<>>
    /\ ret = <<>>
    /\ incoming_request_acks = {}
    /\ outgoing_request_acks = <<>>
    /\ frozen_heights = <<>>
    /\ frozen_consensus_clients = <<>>
    /\ consensus_update_time = (ConsensusClientId :> 0)
    /\ now = 0
    /\ pushing = [at |-> <<>>, got |-> <<>>, raced |-> FALSE]
    /\ tcase \in UNION {TrieCases(inserted) : inserted \in Committed}

\* read_proof_check called on the case
ReadProofCheck ==
    /\ tcase.read = <<>>
    /\ tcase' = [tcase EXCEPT !.read = <<read_proof_check_of_nodes(tcase.root, tcase.proof, tcase.key)>>]
    /\ UNCHANGED <<consensus_states, state_commitments, call, accepted, jcase, acase, mmr, held,
                   ret, incoming_request_acks, outgoing_request_acks, frozen_heights,
                   frozen_consensus_clients, consensus_update_time, now, pushing, later>>

\* verify_state_proof called on the case
VerifyStateProof ==
    /\ tcase.verified = <<>>
    /\ tcase' = [tcase EXCEPT !.verified =
                                  <<verify_state_proof(tcase.root, tcase.proof, tcase.key)>>]
    /\ UNCHANGED <<consensus_states, state_commitments, call, accepted, jcase, acase, mmr, held,
                   ret, incoming_request_acks, outgoing_request_acks, frozen_heights,
                   frozen_consensus_clients, consensus_update_time, now, pushing, later>>

NextTrie ==
    \/ ReadProofCheck
    \/ VerifyStateProof

SpecTrie == InitTrie /\ [][NextTrie]_vars

\* ------------------------------------------------ reads of untrusted fields

\* A u64 is kept as its four 16-bit limbs, the lowest first.
Limb == 65536

SLOT_DURATION == 12000

MillisPerSec == 1000

RECURSIVE carry_into(_, _, _)
\* the carry into limb i of limbs * factor (i = 5: out of the u64)
carry_into(limbs, factor, i) ==
    IF i = 1 THEN 0
    ELSE (limbs[i - 1] * factor + carry_into(limbs, factor, i - 1)) \div Limb

\* limbs * factor, wrapped to 64 bits
wrapping_mul(limbs, factor) ==
    [i \in 1..4 |-> (limbs[i] * factor + carry_into(limbs, factor, i)) % Limb]

RECURSIVE rem_above(_, _)
\* the remainder that the division by 1000 brings down into limb i
rem_above(limbs, i) ==
    IF i = 4 THEN 0
    ELSE (rem_above(limbs, i + 1) * Limb + limbs[i + 1]) % MillisPerSec

\* Duration::from_millis(millis).as_secs()
as_secs(millis) ==
    [i \in 1..4 |-> (rem_above(millis, i) * Limb + millis[i]) \div MillisPerSec]

\* *slot * SLOT_DURATION and the conversion to seconds: a product beyond u64
\* panics in a build with overflow checks and wraps in one without
slot_timestamp(slot, overflow_checks) ==
    IF carry_into(slot, SLOT_DURATION, 5) # 0 /\ overflow_checks THEN Failure("panic")
    ELSE [ok |-> TRUE, err |-> "Ok", timestamp |-> as_secs(wrapping_mul(slot, SLOT_DURATION))]

\* lines 127-132: the pair is skipped unless its hash is found, and the
\* header then taken with expect
relay_chain_header_of(headers, hash) ==
    IF ~binary_search(headers, hash) THEN [ok |-> TRUE, err |-> "Ok", skipped |-> TRUE]
    ELSE IF header(headers, hash) = {} THEN Failure("panic")
    ELSE [ok |-> TRUE, err |-> "Ok", skipped |-> FALSE]

\* the slots a header's Aura log may carry: 0, 1, the last whose product
\* fits a u64, the next, and the largest
Slots ==
    {<<0, 0, 0, 0>>, <<1, 0, 0, 0>>, <<14505, 61691, 30233, 5>>, <<14506, 61691, 30233, 5>>,
     <<65535, 65535, 65535, 65535>>}

\* the timestamp extrinsics handed in
Extrinsics == SeqsUpTo({0, 9}, MaxExtrinsicLen)

\* the proofs of one parachain header: its extrinsic is the one the header's
\* extrinsics_root commits to, or another is handed in
EntryProofs(extrinsic, proved) ==
    [ParachainHeaderProofs(1, h1.state_root, parachain_header, extrinsic)
        EXCEPT !.extrinsic = IF proved THEN extrinsic ELSE extrinsic \o <<9>>]

InitUntrusted ==
    /\ InitLater
    /\ consensus_states = (ConsensusClientId :> encode(InitialConsensusState))
    /\ state_commitments = <<>>
    /\ call = NoCall
    /\ accepted = <<>>
    /\ jcase = <<>>
    /\ acase = <<>>
    /\ mmr = EmptyMmr
    /\ held = <<>>
    /\ ret = <<>>
    /\ incoming_request_acks = {}
    /\ outgoing_request_acks = <<>>
    /\ frozen_heights = <<>>
    /\ frozen_consensus_clients = <<>>
    /\ consensus_update_time = (ConsensusClientId :> 0)
    /\ now = 0
    /\ pushing = [at |-> <<>>, got |-> <<>>, raced |-> FALSE]
    /\ tcase \in {[extrinsic |-> extrinsic, proved |-> proved, slot |-> slot,
                   overflow_checks |-> overflow_checks, hash |-> hash,
                   verified |-> <<>>, fetched |-> <<>>, looked |-> <<>>] :
                     extrinsic \in Extrinsics, proved \in BOOLEAN, slot \in Slots,
                     overflow_checks \in BOOLEAN, hash \in {Hash(h1), Hash(h2), Hash(f2) + 1}}

\* one parachain header entry verified under a finalized relay chain header
VerifyParachainHeader ==
    /\ tcase.verified = <<>>
    /\ tcase' = [tcase EXCEPT !.verified =
                    <<verify_parachain_header(h1, EntryProofs(tcase.extrinsic, tcase.proved))>>]
    /\ UNCHANGED <<consensus_states, state_commitments, call, accepted, jcase, acase, mmr, held,
                   ret, incoming_request_acks, outgoing_request_acks, frozen_heights,
                   frozen_consensus_clients, consensus_update_time, now, pushing, later>>

\* fetch_overlay_root_and_timestamp on a header with the slot in its digest
FetchTimestamp ==
    /\ tcase.fetched = <<>>
    /\ tcase' = [tcase EXCEPT !.fetched = <<slot_timestamp(tcase.slot, tcase.overflow_checks)>>]
    /\ UNCHANGED <<consensus_states, state_commitments, call, accepted, jcase, acase, mmr, held,
                   ret, incoming_request_acks, outgoing_request_acks, frozen_heights,
                   frozen_consensus_clients, consensus_update_time, now, pushing, later>>

\* the relay chain header of a pair looked up among the headers h1, h2
LookupRelayHeader ==
    /\ tcase.looked = <<>>
    /\ tcase' = [tcase EXCEPT !.looked =
                    <<relay_chain_header_of(AncestryChain_new(<<h1, h2>>), tcase.hash)>>]
    /\ UNCHANGED <<consensus_states, state_commitments, call, accepted, jcase, acase, mmr, held,
                   ret, incoming_request_acks, outgoing_request_acks, frozen_heights,
                   frozen_consensus_clients, consensus_update_time, now, pushing, later>>

NextUntrusted ==
    \/ VerifyParachainHeader
    \/ FetchTimestamp
    \/ LookupRelayHeader

SpecUntrusted == InitUntrusted /\ [][NextUntrusted]_vars

\* ------------------------------------------------------------ the host

\* the state machines whose heights are frozen and asked about
StateMachineIds == {1, 2}

\* Host::freeze_state_machine
freeze_state_machine(heights, id, height) == insert(heights, id, height)

\* fault: the frozen height itself is left open
is_state_machine_frozen_above(heights, id, height) ==
    IF id \in DOMAIN heights /\ height > heights[id] THEN "FrozenStateMachine" ELSE "Ok"

\* Host::is_state_machine_frozen
is_state_machine_frozen(heights, id, height) ==
    IF id \in DOMAIN heights /\ height >= heights[id] THEN "FrozenStateMachine" ELSE "Ok"

\* Host::freeze_consensus_client
freeze_consensus_client(clients, client) == insert(clients, client, TRUE)

\* FrozenConsensusClients::get, a ValueQuery of bool: false where nothing is stored
FrozenConsensusClients_get(clients, client) ==
    IF client \in DOMAIN clients THEN clients[client] ELSE FALSE

\* Host::is_consensus_client_frozen: get(client).then(|| ()).ok_or_else(..)
is_consensus_client_frozen(clients, client) ==
    IF FrozenConsensusClients_get(clients, client) THEN "Ok" ELSE "FrozenConsensusClient"

FreezeStateMachine(id, height) ==
    /\ frozen_heights' = freeze_state_machine(frozen_heights, id, height)
    /\ ret' = [op |-> "freeze_state_machine", arg |-> <<id, height>>, outcome |-> "Ok"]
    /\ UNCHANGED <<consensus_states, state_commitments, call, accepted, jcase, acase, mmr, held,
                   incoming_request_acks, outgoing_request_acks, frozen_consensus_clients,
                   consensus_update_time, now, pushing, tcase, later>>

IsStateMachineFrozen(id, height) ==
    /\ ret' = [op |-> "is_state_machine_frozen", arg |-> <<id, height>>,
               outcome |-> is_state_machine_frozen(frozen_heights, id, height)]
    /\ UNCHANGED <<consensus_states, state_commitments, call, accepted, jcase, acase, mmr, held,
                   incoming_request_acks, outgoing_request_acks, frozen_heights,
                   frozen_consensus_clients, consensus_update_time, now, pushing, tcase, later>>

FreezeConsensusClient(client) ==
    /\ frozen_consensus_clients' = freeze_consensus_client(frozen_consensus_clients, client)
    /\ ret' = [op |-> "freeze_consensus_client", arg |-> client, outcome |-> "Ok"]
    /\ UNCHANGED <<consensus_states, state_commitments, call, accepted, jcase, acase, mmr, held,
                   incoming_request_acks, outgoing_request_acks, frozen_heights,
                   consensus_update_time, now, pushing, tcase, later>>

IsConsensusClientFrozen(client) ==
    /\ ret' = [op |-> "is_consensus_client_frozen", arg |-> client,
               outcome |-> is_consensus_client_frozen(frozen_consensus_clients, client)]
    /\ UNCHANGED <<consensus_states, state_commitments, call, accepted, jcase, acase, mmr, held,
                   incoming_request_acks, outgoing_request_acks, frozen_heights,
                   frozen_consensus_clients, consensus_update_time, now, pushing, tcase, later>>

NextHost ==
    \/ \E id \in StateMachineIds, height \in 0..MaxHeight : FreezeStateMachine(id, height)
    \/ \E id \in StateMachineIds, height \in 0..MaxHeight : IsStateMachineFrozen(id, height)
    \/ \E client \in AdminClientIds : FreezeConsensusClient(client)
    \/ \E client \in AdminClientIds : IsConsensusClientFrozen(client)

SpecHost == Init /\ [][NextHost]_vars

\* -------------------------------------------------- consensus updates in time

\* Host::challenge_period: what the runtime's ConsensusClientProvider gives
challenge_period(id) == ChallengePeriod

\* fault: no update is taken to be within the challenge period
never_within_challenge_period(timestamp, update_time, delay) == FALSE

\* the test made of an update on arrival: the time since the last update
\* is not beyond the challenge period
within_challenge_period(timestamp, update_time, delay) == timestamp - update_time <= delay

\* Host::store_consensus_update_time
store_consensus_update_time(times, id, timestamp) == insert(times, id, timestamp)

\* res.state_updates: the heights the accepted message committed
state_updates(intermediates) ==
    {[id |-> id, height |-> intermediates[id].height] : id \in DOMAIN intermediates}

\* Event::StateMachineUpdated for each of the updates, as deposited at `at`
RECURSIVE StateMachineUpdated(_, _)
StateMachineUpdated(updates, at) ==
    IF updates = {} THEN <<>>
    ELSE <<[kind |-> "StateMachineUpdated", at |-> at,
            latest_height |-> CHOOSE latest_height \in updates : TRUE]>>
         \o StateMachineUpdated(updates \ {CHOOSE latest_height \in updates : TRUE}, at)

\* Event::ChallengePeriodStarted
ChallengePeriodStarted(id, updates, at) ==
    [kind |-> "ChallengePeriodStarted", at |-> at, consensus_client_id |-> id,
     state_machines |-> updates]

\* fault: every client is taken to be trusted
is_trusted_state_machine_always(id) == TRUE

\* handle_messages: a client without a challenge period is trusted
is_trusted_state_machine(id) == challenge_period(id) = 0

\* ConsensusUpdateResults::get, None read as no pending update
pending_updates(results, id) == IF id \in DOMAIN results THEN results[id] ELSE {}

\* the events handle_messages deposits for an accepted consensus message
deposited(results, id, updates, at) ==
    IF is_trusted_state_machine(id)
        THEN StateMachineUpdated(updates, at)
        ELSE StateMachineUpdated(pending_updates(results, id), at)
             \o <<ChallengePeriodStarted(id, updates, at)>>

\* what handle_messages leaves in ConsensusUpdateResults for it
pending_after(results, id, updates) ==
    IF is_trusted_state_machine(id) THEN results ELSE insert(results, id, updates)

\* what handle_incoming_message returned for the consensus message, kept
\* with the call that handed the message in
Returned(op, message, outcome) ==
    [op |-> op, arg |-> message.kind, at |-> now, outcome |-> outcome]

\* handle_messages for one consensus message, the clock and the time of the
\* last update being read by the ismp crate's handler before the proof: an
\* update within the challenge period is refused, another is verified and,
\* when the verifier returned Ok, stored with the time of its arrival; the
\* pallet then announces the updates whose challenge period ended and keeps
\* the new ones in ConsensusUpdateResults
HandleMessages(op, message) ==
    /\ IF within_challenge_period(now, consensus_update_time[ConsensusClientId],
                                  challenge_period(ConsensusClientId))
       THEN /\ ret' = Returned(op, message, "ChallengePeriodNotElapsed")
            /\ UNCHANGED <<consensus_states, state_commitments, consensus_update_time, events,
                           consensus_update_results>>
       ELSE \E res \in {verify_consensus(consensus_states[ConsensusClientId], message)} :
            IF res.ok
            THEN /\ ret' = Returned(op, message, "Ok")
                 /\ consensus_states' =
                        store_consensus_state(consensus_states, ConsensusClientId,
                                              res.consensus_state)
                 /\ consensus_update_time' =
                        store_consensus_update_time(consensus_update_time, ConsensusClientId,
                                                    now)
                 /\ state_commitments' =
                        store_state_machine_commitments(state_commitments, res.intermediates)
                 /\ events' =
                        events \o deposited(consensus_update_results, ConsensusClientId,
                                            state_updates(res.intermediates), now)
                 /\ consensus_update_results' =
                        pending_after(consensus_update_results, ConsensusClientId,
                                      state_updates(res.intermediates))
            ELSE /\ ret' = Returned(op, message, res.err)
                 /\ UNCHANGED <<consensus_states, state_commitments, consensus_update_time,
                                events, consensus_update_results>>
    /\ UNCHANGED <<call, accepted, jcase, acase, mmr, held, incoming_request_acks,
                   outgoing_request_acks, frozen_heights, frozen_consensus_clients, now,
                   pushing, tcase, incoming_response_acks, nonce, inherent_updated, digest>>

\* the pallet's call with one consensus message
UpdateClient(message) == HandleMessages("update_client", message)

\* TimeProvider::now moves on by a second
Tick ==
    /\ now < MaxTime
    /\ now' = now + 1
    /\ UNCHANGED <<consensus_states, state_commitments, call, accepted, jcase, acase, mmr, held,
                   ret, incoming_request_acks, outgoing_request_acks, frozen_heights,
                   frozen_consensus_clients, consensus_update_time, pushing, tcase, later>>

NextUpdate ==
    \/ \E message \in MessagesOver(DistinctSeqs(HeaderPool, MaxAdminUnknown)) :
          UpdateClient(message)
    \/ Tick

SpecUpdate == Init /\ [][NextUpdate]_vars

\* ------------------------------------------------- the parachain inherent

\* InherentUpdated::exists
InherentUpdated_exists(stored) == stored

\* the parachain pallet's handle: the assertion on InherentUpdated, then
\* handle_messages; nothing is written to InherentUpdated
ParachainHandle(message) ==
    IF InherentUpdated_exists(inherent_updated)
        THEN /\ ret' = Returned("handle", message,
                                "ValidationData must be updated only once in a block")
             /\ UNCHANGED <<consensus_states, state_commitments, call, accepted, jcase, acase,
                            mmr, held, incoming_request_acks, outgoing_request_acks,
                            frozen_heights, frozen_consensus_clients, consensus_update_time,
                            now, pushing, tcase, later>>
        ELSE HandleMessages("handle", message)

\* the parachain pallet's on_initialize: InherentUpdated::kill
ParachainOnInitialize ==
    /\ inherent_updated' = FALSE
    /\ ret' = [op |-> "on_initialize", outcome |-> "Ok"]
    /\ UNCHANGED <<consensus_states, state_commitments, call, accepted, jcase, acase, mmr, held,
                   incoming_request_acks, outgoing_request_acks, frozen_heights,
                   frozen_consensus_clients, consensus_update_time, now, pushing, tcase,
                   incoming_response_acks, events, nonce, digest, consensus_update_results>>

NextInherent ==
    \/ \E message \in MessagesOver(DistinctSeqs(HeaderPool, MaxAdminUnknown)) :
          ParachainHandle(message)
    \/ ParachainOnInitialize
    \/ Tick

SpecInherent == Init /\ [][NextInherent]_vars


\* ------------------------------------------------------------ what is checked

\* the ConsensusState in storage, and the one in storage when the call began
stored == decode(consensus_states[ConsensusClientId]).value

before == decode(call.before.consensus_states[ConsensusClientId]).value

\* a call that reached verify_grandpa_finality_proof, the proof it was given
\* and what that function returned
Verifying == call.active /\ call.message.kind # "Malformed"

submitted == call.message.finality_proof

finality == call.result.finality

Finalized == Verifying /\ finality.ok

\* block `to` is block `from` or a descendant of it by parent hashes through
\* headers of the set S
RECURSIVE Linked(_, _, _)
Linked(S, from, to) ==
    \/ from = to
    \/ \E x \in S : Hash(x) = to /\ Linked(S \ {x}, from, x.parent_hash)

\* the headers of hs with the highest number
Highest(hs) == {x \in Range(hs) : \A y \in Range(hs) : y.number <= x.number}

\* the last of the headers of hs with the highest number
Target(hs) ==
    hs[CHOOSE i \in DOMAIN hs :
           /\ \A k \in DOMAIN hs : hs[k].number <= hs[i].number
           /\ \A k \in DOMAIN hs : k > i => hs[k].number < hs[i].number]

\* the first of the headers of hs with the lowest number
Base(hs) ==
    hs[CHOOSE i \in DOMAIN hs :
           /\ \A k \in DOMAIN hs : hs[i].number <= hs[k].number
           /\ \A k \in DOMAIN hs : k < i => hs[i].number < hs[k].number]

\* C2: after a successful verify_grandpa_finality_proof the new latest_height
\* is at least the old one, and greater when the target is not the header
\* finalized before; so the stored latest_height never decreases over a call.
C2_HeightNeverDecreases ==
    /\ Finalized =>
          /\ finality.consensus_state.latest_height >= before.latest_height
          /\ finality.consensus_state.latest_hash # before.latest_hash =>
                 finality.consensus_state.latest_height > before.latest_height
    /\ call.active => stored.latest_height >= before.latest_height

\* a call that finalized a header above the one finalized before
C2_Witness ==
    /\ Finalized
    /\ call.result.ok
    /\ before.latest_hash = Hash(h0)
    /\ stored.latest_hash = Hash(h2)
    /\ stored.latest_height = 2

\* the errors of lines 57-72, raised before any ancestry is looked at
TargetErrors == {"EmptyUnknownHeaders", "TargetMismatch", "DecodeError", "JustificationTargetMismatch"}

\* C3: verify_grandpa_finality_proof succeeds only if the target is linked by
\* parent hashes through the unknown headers back to latest_hash, and, when
\* the lowest unknown header is below latest_height, only if latest_hash is
\* linked back to that header; a proof whose target is not so linked is
\* rejected with an ancestry error; a stored latest_hash is followed only by
\* itself or a descendant on the chain.
C3_TargetConnected ==
    /\ Finalized =>
          /\ Linked(Range(submitted.unknown_headers), before.latest_hash, Hash(finality.target))
          /\ Base(submitted.unknown_headers).number < before.latest_height =>
                 Linked(Range(submitted.unknown_headers),
                        Hash(Base(submitted.unknown_headers)), before.latest_hash)
    /\ /\ Verifying
       /\ finality.err \notin TargetErrors
       /\ ~Linked(Range(submitted.unknown_headers), before.latest_hash, submitted.block)
       => ~finality.ok /\ finality.err \in {"InvalidAncestry", "InvalidAncestryBase"}
    /\ call.active => Linked(RealHeaders, before.latest_hash, stored.latest_hash)

\* a successful call whose unknown headers start below latest_height: both
\* ancestry checks ran
C3_Witness ==
    /\ Finalized
    /\ Len(submitted.unknown_headers) = 2
    /\ Base(submitted.unknown_headers).number < before.latest_height
    /\ Linked(Range(submitted.unknown_headers), before.latest_hash, Hash(finality.target))

\* the errors of lines 82-92
AncestryErrors == {"InvalidAncestry", "InvalidAncestryBase"}

\* C4: a justification, also one for a header that rotates the authority set,
\* is verified against the authorities and set id the consensus state held
\* before the call: whether the call gets past the justification is decided by
\* that set alone, and the rotated set is what the next call starts from.
C4_RotationUsesOldSet ==
    /\ Verifying /\ finality.err \notin TargetErrors \cup AncestryErrors =>
          (finality.ok <=>
              verify(submitted.justification, before.current_set_id,
                     before.current_authorities) = "Ok")
    /\ Finalized /\ find_scheduled_change(finality.target).some =>
          /\ finality.consensus_state.current_set_id = before.current_set_id + 1
          /\ call.result.ok => stored.current_set_id = before.current_set_id + 1

\* a call accepted a header that rotates the set, on a justification that the
\* rotated set would not pass
C4_Witness ==
    /\ Finalized
    /\ call.result.ok
    /\ find_scheduled_change(finality.target).some
    /\ stored.current_authorities # before.current_authorities
    /\ verify(submitted.justification, stored.current_set_id, stored.current_authorities) # "Ok"

\* the justification check behind the stored latest_hash, once a call succeeded
proven == accepted[1]

\* C5 as stated: the stored latest_hash and latest_height are those of a
\* header finalized by a justification that verifies against the stored
\* current_authorities at the stored current_set_id.
C5_ProvenUnderCurrentSet ==
    accepted # <<>> =>
        /\ proven.justification.commit.target_hash = stored.latest_hash
        /\ HeaderOf(stored.latest_hash).number = stored.latest_height
        /\ verify(proven.justification, stored.current_set_id, stored.current_authorities) = "Ok"

\* C5, amended: the stored latest_hash and latest_height are those of the
\* trusted header or of a header finalized by a justification that verified
\* against the authorities and set id the state held when the header was
\* accepted; these are the stored current_authorities and current_set_id
\* unless that header's digest schedules a change, and then the stored ones
\* are the set that follows.
C5_ProvenUnderAcceptingSet ==
    /\ accepted = <<>> => stored = InitialConsensusState
    /\ accepted # <<>> =>
          /\ proven.justification.commit.target_hash = stored.latest_hash
          /\ HeaderOf(stored.latest_hash).number = stored.latest_height
          /\ verify(proven.justification, proven.current_set_id, proven.current_authorities) = "Ok"
          /\ IF HeaderOf(stored.latest_hash).digest = 0
             THEN /\ stored.current_set_id = proven.current_set_id
                  /\ stored.current_authorities = proven.current_authorities
             ELSE /\ stored.current_set_id = proven.current_set_id + 1
                  /\ stored.current_authorities = AuthorityLists[HeaderOf(stored.latest_hash).digest]

\* a stored state, with no call running, whose latest header rotated the set
C5_Witness ==
    /\ ~call.active
    /\ accepted # <<>>
    /\ stored.latest_hash = Hash(h2)
    /\ stored.current_set_id = proven.current_set_id + 1
    /\ stored.current_authorities # proven.current_authorities

\* the relay chain message of the call carries, under the hash of one of its
\* unknown headers, a proof for a tracked parachain whose head the relay chain
\* state does not hold
MissingHead ==
    /\ call.active
    /\ call.message.kind = "RelayChainMessage"
    /\ \E i \in DOMAIN call.message.parachain_headers :
          LET item == call.message.parachain_headers[i]
          IN  /\ \E x \in Range(submitted.unknown_headers) : Hash(x) = item.hash
              /\ \E k \in DOMAIN item.proofs :
                    /\ item.proofs[k].para_id \in DOMAIN before.para_ids
                    /\ item.proofs[k].state_proof.value = None

\* C6: when the call fails, whatever the reason, the stored consensus state
\* and the stored state commitments are what they were before the call, also
\* when the finality proof of a relay chain message is valid and a parachain
\* proof fails; storage changes only to what a successful verify_consensus
\* returned.
C6_FailureLeavesStoreUntouched ==
    /\ call.active /\ ~call.result.ok =>
          /\ consensus_states = call.before.consensus_states
          /\ state_commitments = call.before.state_commitments
    /\ MissingHead =>
          /\ consensus_states = call.before.consensus_states
          /\ state_commitments = call.before.state_commitments
    /\ call.active /\ consensus_states # call.before.consensus_states =>
          /\ call.result.ok
          /\ consensus_states[ConsensusClientId] = call.result.consensus_state

\* a relay chain message whose finality proof verified and would have moved
\* latest_hash failed on a parachain proof
C6_Witness ==
    /\ MissingHead
    /\ Finalized
    /\ finality.consensus_state.latest_hash # before.latest_hash
    /\ ~call.result.ok
    /\ call.result.cause = "ParachainHeaderNotFound"
    /\ stored = before

\* C9: verify_grandpa_finality_proof fails, returning no state, when
\* unknown_headers is empty, when the highest-numbered unknown header does not
\* hash to finality_proof.block, and when the justification's commit target
\* hash is not finality_proof.block; an accepted proof makes exactly
\* finality_proof.block the latest header, and that block is the
\* highest-numbered unknown header.
C9_TargetIsNamedBlock ==
    /\ Verifying =>
          /\ submitted.unknown_headers = <<>> => ~finality.ok
          /\ /\ submitted.unknown_headers # <<>>
             /\ Hash(Target(submitted.unknown_headers)) # submitted.block
             => ~finality.ok
          /\ /\ submitted.justification # Undecodable
             /\ submitted.justification.commit.target_hash # submitted.block
             => ~finality.ok
          /\ ~finality.ok =>
                /\ "consensus_state" \notin DOMAIN finality
                /\ stored = before
    /\ Finalized =>
          /\ finality.target \in Highest(submitted.unknown_headers)
          /\ Hash(finality.target) = submitted.block
          /\ submitted.justification.commit.target_hash = submitted.block
          /\ finality.consensus_state.latest_hash = submitted.block
          /\ finality.consensus_state.latest_height = finality.target.number

\* a proof naming a block that is not its highest header, with a justification
\* of that block by every authority, was refused
C9_Witness ==
    /\ Verifying
    /\ Len(submitted.unknown_headers) = 2
    /\ submitted.block = Hash(h2)
    /\ Hash(Target(submitted.unknown_headers)) # submitted.block
    /\ submitted.justification # Undecodable
    /\ submitted.justification.commit.target_hash = submitted.block
    /\ Len(submitted.justification.commit.precommits) = 3
    /\ finality.err = "TargetMismatch"
    /\ stored = before

\* C10: current_set_id never decreases over a call; a successful
\* verify_grandpa_finality_proof adds one to it and replaces
\* current_authorities by the announced list exactly when the target's digest
\* holds a scheduled change, and leaves both as they were otherwise; a failed
\* call leaves both as they were.
C10_SetIdStepsWithScheduledChange ==
    /\ call.active => stored.current_set_id >= before.current_set_id
    /\ Finalized /\ finality.target.digest # 0 =>
          /\ finality.consensus_state.current_set_id = before.current_set_id + 1
          /\ finality.consensus_state.current_authorities = AuthorityLists[finality.target.digest]
    /\ Finalized /\ finality.target.digest = 0 =>
          /\ finality.consensus_state.current_set_id = before.current_set_id
          /\ finality.consensus_state.current_authorities = before.current_authorities
    /\ call.active /\ call.result.ok =>
          /\ stored.current_set_id = finality.consensus_state.current_set_id
          /\ stored.current_authorities = finality.consensus_state.current_authorities
    /\ call.active /\ ~call.result.ok =>
          /\ stored.current_set_id = before.current_set_id
          /\ stored.current_authorities = before.current_authorities

\* a call accepted the header that schedules authority list 2
C10_Witness ==
    /\ Finalized
    /\ call.result.ok
    /\ finality.target.digest = 2
    /\ before.current_set_id = 0
    /\ before.current_authorities = AuthorityLists[1]
    /\ stored.current_set_id = 1
    /\ stored.current_authorities = AuthorityLists[2]

\* The scenario of C8 with n precommits: three authorities of weight 1, two
\* unknown headers of which the first follows the latest finalized header, the
\* second follows the first and hashes to finality_proof.block, and a
\* justification of that block carrying n precommits for it, each validly
\* signed by another authority.
TwoHeaderScenario(n) ==
    /\ Verifying
    /\ Len(before.current_authorities) = 3
    /\ \A i \in 1..3 : before.current_authorities[i].weight = 1
    /\ Len(submitted.unknown_headers) = 2
    /\ submitted.unknown_headers[1].parent_hash = before.latest_hash
    /\ submitted.unknown_headers[2].parent_hash = Hash(submitted.unknown_headers[1])
    /\ Hash(submitted.unknown_headers[2]) = submitted.block
    /\ submitted.justification # Undecodable
    /\ submitted.justification.commit.target_hash = submitted.block
    /\ LET pcs == submitted.justification.commit.precommits
       IN  /\ Len(pcs) = n
           /\ \A i \in DOMAIN pcs :
                 /\ pcs[i].precommit.target_hash = submitted.block
                 /\ pcs[i].signature = Payload(pcs[i].id, pcs[i].precommit.target_hash,
                                               pcs[i].precommit.target_number,
                                               submitted.justification.round,
                                               before.current_set_id)
                 /\ \E k \in 1..3 : before.current_authorities[k].id = pcs[i].id
           /\ \A i, k \in DOMAIN pcs : i # k => pcs[i].id # pcs[k].id

ScenarioSucceeds ==
    /\ finality.ok
    /\ finality.consensus_state.latest_height = submitted.unknown_headers[2].number

\* C8 as stated: in the scenario verification succeeds with two valid
\* precommits, the new latest_height being that of the second header, and
\* fails with InsufficientVotingWeight with one.
C8_TwoOfThreeSucceed ==
    /\ TwoHeaderScenario(2) => ScenarioSucceeds
    /\ TwoHeaderScenario(1) => ~finality.ok /\ finality.err = "InsufficientVotingWeight"

\* C8, amended: in the scenario verification succeeds with three valid
\* precommits, the new latest_height being that of the second header, and
\* fails with InsufficientVotingWeight with two or with one.
C8_ThreeOfThreeSucceed ==
    /\ TwoHeaderScenario(3) => ScenarioSucceeds
    /\ TwoHeaderScenario(2) => ~finality.ok /\ finality.err = "InsufficientVotingWeight"
    /\ TwoHeaderScenario(1) => ~finality.ok /\ finality.err = "InsufficientVotingWeight"

\* the scenario with three valid precommits was accepted
C8_Witness ==
    /\ TwoHeaderScenario(3)
    /\ submitted.unknown_headers = <<h1, h2>>
    /\ ScenarioSucceeds

\* ---- the justification case

casePrecommits == jcase.justification.commit.precommits

\* precommit i of the case targets the commit target or a block the commit
\* target descends from by the headers of votes_ancestries
AncestorChecks(i) ==
    Linked(Range(jcase.justification.votes_ancestries),
           casePrecommits[i].precommit.target_hash, jcase.justification.commit.target_hash)

\* the weight the authority list gives to the signer of precommit i
WeightOfSigner(i) ==
    SumSeq([k \in DOMAIN jcase.authorities |->
               IF jcase.authorities[k].id = casePrecommits[i].id
               THEN jcase.authorities[k].weight ELSE 0])

\* the summed weight of the precommits whose targets ancestor-check
CheckedWeight ==
    SumSeq([i \in DOMAIN casePrecommits |-> IF AncestorChecks(i) THEN WeightOfSigner(i) ELSE 0])

\* W
TotalWeight == SumSeq([k \in DOMAIN jcase.authorities |-> jcase.authorities[k].weight])

ValidlySigned(i) ==
    casePrecommits[i].signature =
        Payload(casePrecommits[i].id, casePrecommits[i].precommit.target_hash,
                casePrecommits[i].precommit.target_number, jcase.justification.round,
                jcase.set_id)

\* precommit i is the only one of its authority
OnlyVote(i) == \A k \in DOMAIN casePrecommits : k # i => casePrecommits[k].id # casePrecommits[i].id

Verdict == jcase.verdict # "Unverified"

\* C1 as stated: a justification is accepted if and only if the summed weight
\* of its precommits whose targets ancestor-check against the commit target
\* is more than two thirds of the total weight W.
C1_AcceptedIffQuorum ==
    Verdict => (jcase.verdict = "Ok" <=> 3 * CheckedWeight > 2 * TotalWeight)

\* C1, amended: a justification whose precommits are all validly signed and
\* come from different authorities is accepted if and only if the summed
\* weight of its precommits whose targets ancestor-check against the commit
\* target is more than two thirds of W (exactly two thirds is refused, more
\* than two thirds from some of the authorities is accepted); one with an
\* invalid signature or with two precommits of one authority is refused.
C1_AcceptedIffValidQuorum ==
    /\ Verdict /\ (\A i \in DOMAIN casePrecommits : ValidlySigned(i) /\ OnlyVote(i)) =>
          /\ jcase.verdict = "Ok" <=> 3 * CheckedWeight > 2 * TotalWeight
          /\ 3 * CheckedWeight <= 2 * TotalWeight => jcase.verdict = "InsufficientVotingWeight"
    /\ Verdict /\ (\E i \in DOMAIN casePrecommits : ~ValidlySigned(i)) =>
          jcase.verdict = "BadSignature"
    /\ /\ Verdict
       /\ \A i \in DOMAIN casePrecommits : ValidlySigned(i)
       /\ \E i \in DOMAIN casePrecommits : ~OnlyVote(i)
       => jcase.verdict = "DuplicateVote"

\* two of three authorities, holding more than two thirds of the weight, had
\* their justification accepted
C1_Witness ==
    /\ jcase.verdict = "Ok"
    /\ Len(casePrecommits) = 2
    /\ 3 * CheckedWeight > 2 * TotalWeight
    /\ CheckedWeight < TotalWeight

\* the justification of the case without the precommits whose targets do not
\* ancestor-check
WithoutJunk ==
    [jcase.justification EXCEPT
        !.commit.precommits = SelectSeq(@, LAMBDA signed :
            Linked(Range(jcase.justification.votes_ancestries),
                   signed.precommit.target_hash, jcase.justification.commit.target_hash))]

\* C7 as stated: precommits whose targets are not the commit target or an
\* ancestor of it change nothing: the verdict is that of the justification
\* without them.
C7_JunkChangesNothing ==
    Verdict => jcase.verdict = verify(WithoutJunk, jcase.set_id, jcase.authorities)

\* every precommit whose target does not ancestor-check is validly signed by an
\* authority with no other precommit in the justification
JunkIsSignedOnlyVote ==
    \A i \in DOMAIN casePrecommits : ~AncestorChecks(i) => ValidlySigned(i) /\ OnlyVote(i)

\* C7, amended: precommits whose targets are not the commit target or an
\* ancestor of it, when validly signed by authorities that have no other
\* precommit in the justification, change nothing: the verdict is that of the
\* justification without them. One with an invalid signature, or from an
\* authority that has another precommit, makes verification fail.
C7_SignedJunkChangesNothing ==
    /\ Verdict /\ JunkIsSignedOnlyVote =>
          jcase.verdict = verify(WithoutJunk, jcase.set_id, jcase.authorities)
    /\ Verdict /\ ~JunkIsSignedOnlyVote => jcase.verdict \in {"BadSignature", "DuplicateVote"}

\* a justification accepted on two precommits carried a third for the fork f2
C7_Witness ==
    /\ jcase.verdict = "Ok"
    /\ Len(casePrecommits) = 3
    /\ \E i \in DOMAIN casePrecommits :
          /\ casePrecommits[i].precommit.target_hash = Hash(f2)
          /\ ~AncestorChecks(i)
    /\ JunkIsSignedOnlyVote

\* ---- the ancestry case

\* the case is about the headers path[1] .. path[n] and no others, asked for
\* ancestry(hash of the first, hash of the last)
CaseIsAbout(path) ==
    /\ path # <<>>
    /\ DOMAIN acase.chain = Range(path)
    /\ acase.from = path[1]
    /\ acase.to = path[Len(path)]

\* the links of the path that hold: header i + 1 names header i as its parent
BrokenLinks(path) ==
    {i \in 1..(Len(path) - 1) : acase.chain[path[i + 1]].parent_hash # path[i]}

WalkDone == acase.walk.status # "Walking"

\* C11 as stated: for headers forming a parent chain ancestry(H1, Hn)
\* succeeds and returns the hashes of all of them; for a chain with exactly
\* one broken parent link it fails with InvalidAncestry.
C11_AncestrySound ==
    WalkDone =>
        \A path \in DistinctSeqs(CaseHashes, MaxHashes) :
            CaseIsAbout(path) =>
                /\ BrokenLinks(path) = {} =>
                      acase.walk.status = "Ok" /\ acase.walk.route = Range(path)
                /\ Cardinality(BrokenLinks(path)) = 1 => acase.walk.status = "InvalidAncestry"

\* C11, amended: as stated, for a broken link that does not name an earlier
\* header of the chain as parent; when header i + 1 names a header before
\* header i as its parent, Hn still links back to H1 and ancestry succeeds
\* with the hashes on that shorter path.
C11_AncestrySoundUnlessSkipping ==
    WalkDone =>
        \A path \in DistinctSeqs(CaseHashes, MaxHashes) :
            CaseIsAbout(path) =>
                /\ BrokenLinks(path) = {} =>
                      acase.walk.status = "Ok" /\ acase.walk.route = Range(path)
                /\ \A i \in BrokenLinks(path) :
                      /\ BrokenLinks(path) = {i}
                      /\ \A k \in 1..(i - 1) : acase.chain[path[i + 1]].parent_hash # path[k]
                      => acase.walk.status = "InvalidAncestry"
                /\ \A i \in BrokenLinks(path) :
                      /\ BrokenLinks(path) = {i}
                      /\ \E k \in 1..(i - 1) : acase.chain[path[i + 1]].parent_hash = path[k]
                      => /\ acase.walk.status = "Ok"
                         /\ acase.walk.route \subseteq Range(path)
                         /\ acase.walk.route # Range(path)

\* the walk over a chain of MaxHashes headers returned all their hashes
C11_Witness ==
    /\ acase.walk.status = "Ok"
    /\ \E path \in DistinctSeqs(CaseHashes, MaxHashes) :
          /\ Len(path) = MaxHashes
          /\ CaseIsAbout(path)
          /\ BrokenLinks(path) = {}
          /\ acase.walk.route = Range(path)

\* the walk has used up its steps without reaching `from`
OutOfSteps ==
    /\ acase.walk.status = "Walking"
    /\ acase.walk.steps = Cardinality(DOMAIN acase.chain) + 1
    /\ acase.walk.current # acase.from

\* C12: ancestry(from, to) terminates on every index of headers, cyclic and
\* dangling parent links included: the walk never takes more than (number of
\* known headers + 1) steps, it returns InvalidAncestry when `from` has not
\* been reached by then, and it always comes to a result.
C12_WalkIsBounded ==
    /\ [](acase # <<>> => acase.walk.steps <= Cardinality(DOMAIN acase.chain) + 1)
    /\ [][acase # <<>> /\ OutOfSteps => acase'.walk.status = "InvalidAncestry"]_vars
    /\ <>(acase # <<>> /\ WalkDone)

\* a walk round a cycle of parent links was cut off after its last allowed step
C12_Witness ==
    /\ acase # <<>>
    /\ acase.walk.status = "InvalidAncestry"
    /\ acase.walk.steps = Cardinality(DOMAIN acase.chain) + 1
    /\ acase.walk.current \in DOMAIN acase.chain
    /\ acase.from \notin DOMAIN acase.chain

\* ---- the parachain header extractor

\* a call that reached verify_parachain_headers_with_grandpa_finality_proof,
\* what it was given and what it returned
Extracting == call.active /\ call.message.kind = "RelayChainMessage"

extractor_input ==
    [finality_proof |-> call.message.finality_proof,
     parachain_headers |-> call.message.parachain_headers]

extraction == verify_parachain_headers_with_grandpa_finality_proof(before, extractor_input)

\* the (relay hash, proofs) pairs of the call, one per ParachainHeaderProofs
entries == flatten(call.message.parachain_headers)

\* the unknown headers the call has proven finalized: the target and its
\* ancestors by parent hashes
FinalizedAncestry ==
    {x \in Range(submitted.unknown_headers) :
        Linked(Range(submitted.unknown_headers), Hash(x),
               Hash(Target(submitted.unknown_headers)))}

InFinalizedAncestry(hash) == \E x \in FinalizedAncestry : Hash(x) = hash

Tracked(para_id) == para_id \in DOMAIN before.para_ids

\* the state proof of an entry verifies against the state root of the relay
\* header it is filed under
StateProofVerifies(entry) ==
    /\ entry.proofs.state_proof.root = HeaderOf(entry.hash).state_root
    /\ entry.proofs.state_proof.key = parachain_header_storage_key(entry.proofs.para_id)

\* entry proves the parachain header and timestamp of `out`
ProvenBy(entry, out) ==
    /\ InFinalizedAncestry(entry.hash)
    /\ StateProofVerifies(entry)
    /\ entry.proofs.state_proof.value = out.header
    /\ entry.proofs.extrinsic_proof =
           TrieProof(out.header.extrinsics_root, 0, entry.proofs.extrinsic)
    /\ decode_timestamp_extrinsic(entry.proofs.extrinsic).ok
    /\ decode_timestamp_extrinsic(entry.proofs.extrinsic).timestamp = out.timestamp

\* C13 as stated: every parachain header the extractor returns was read at
\* the Paras::Heads key of its para_id from a state proof that verifies
\* against the state root of a relay header in the newly finalized ancestry,
\* with its timestamp decoded from the extrinsic proven at index 0 under its
\* extrinsics_root; a tracked entry under a finalized header whose key is
\* absent from a verifying proof fails the call with ParachainHeaderNotFound.
C13_ExtractedHeadersAreProven ==
    Extracting /\ finality.ok =>
        /\ extraction.ok =>
              \A k \in DOMAIN extraction.verified_parachain_headers :
                  \E i \in DOMAIN entries :
                      ProvenBy(entries[i], extraction.verified_parachain_headers[k])
        /\ \A i \in DOMAIN entries :
              /\ InFinalizedAncestry(entries[i].hash)
              /\ Tracked(entries[i].proofs.para_id)
              /\ StateProofVerifies(entries[i])
              /\ entries[i].proofs.state_proof.value = None
              /\ \A k \in 1..(i - 1) : entries[k].proofs.state_proof.value # None
              => ~extraction.ok /\ extraction.err = "ParachainHeaderNotFound"

\* the entries the extractor verified: under a finalized relay header, for a
\* tracked parachain, with every proof in order
VerifiedEntries ==
    {i \in DOMAIN entries :
        /\ InFinalizedAncestry(entries[i].hash)
        /\ Tracked(entries[i].proofs.para_id)
        /\ verify_parachain_header(HeaderOf(entries[i].hash), entries[i].proofs).ok}

VerifiedPair(i) ==
    LET checked == verify_parachain_header(HeaderOf(entries[i].hash), entries[i].proofs)
    IN  [header |-> checked.header, timestamp |-> checked.timestamp]

\* what is filed under key k of the extractor's output, as a set of pairs
FiledUnder(k) ==
    IF k \in DOMAIN extraction.verified_parachain_headers
        THEN {extraction.verified_parachain_headers[k]}
        ELSE {}

\* no verified entry is missing from the extractor's output
NoVerifiedEntryLost ==
    \A i \in VerifiedEntries :
        \E k \in DOMAIN extraction.verified_parachain_headers :
            VerifiedPair(i) \in FiledUnder(k)

\* C14 as stated: the extractor returns a map from para_id to the (header,
\* timestamp) pairs verified for that parachain: every verified entry of a
\* tracked parachain is found under its own para_id, and entries of different
\* parachains or relay headers do not overwrite or hide one another, neither
\* in the output nor in the state commitments derived from it.
C14_EntriesFiledByParaId ==
    Extracting /\ finality.ok /\ extraction.ok =>
        /\ \A i \in VerifiedEntries : VerifiedPair(i) \in FiledUnder(entries[i].proofs.para_id)
        /\ NoVerifiedEntryLost
        /\ call.result.ok =>
              \A i \in VerifiedEntries :
                  \E id \in DOMAIN call.result.intermediates :
                      /\ call.result.intermediates[id].commitment.state_root =
                             VerifiedPair(i).header.state_root
                      /\ call.result.intermediates[id].height = VerifiedPair(i).header.number

\* the parachain_headers of the call without the proofs of untracked parachains
WithoutUntracked ==
    LET IsTracked(proofs) == Tracked(proofs.para_id)
    IN  [i \in DOMAIN call.message.parachain_headers |->
            [hash |-> call.message.parachain_headers[i].hash,
             proofs |-> SelectSeq(call.message.parachain_headers[i].proofs, IsTracked)]]

UntrackedEntries == {i \in DOMAIN entries : ~Tracked(entries[i].proofs.para_id)}

\* C15: a proofs entry whose para_id is not a key of consensus_state.para_ids
\* never shows in the extractor's output and is no error: the call succeeds or
\* fails, and returns for the tracked parachains, exactly what it does with
\* the entry left out; every header in the output comes from a tracked entry.
C15_UntrackedEntriesDiscarded ==
    Extracting /\ finality.ok =>
        LET omitted == verify_parachain_headers_with_grandpa_finality_proof(
                           before, [finality_proof |-> call.message.finality_proof,
                                    parachain_headers |-> WithoutUntracked])
        IN  /\ extraction.ok = omitted.ok
            /\ extraction.err = omitted.err
            /\ extraction.ok =>
                  /\ extraction.verified_parachain_headers = omitted.verified_parachain_headers
                  /\ \A k \in DOMAIN extraction.verified_parachain_headers :
                        \E i \in DOMAIN entries \ UntrackedEntries :
                            /\ entries[i].proofs.state_proof.value =
                                   extraction.verified_parachain_headers[k].header
                            /\ entries[i].proofs.state_proof.key =
                                   parachain_header_storage_key(entries[i].proofs.para_id)

\* a call that succeeded with a header of a tracked parachain after passing
\* over a proof of an untracked one whose head does not decode
C15_Witness ==
    /\ Extracting
    /\ call.result.ok
    /\ extraction.ok
    /\ extraction.verified_parachain_headers # <<>>
    /\ \E i \in UntrackedEntries :
          /\ InFinalizedAncestry(entries[i].hash)
          /\ entries[i].proofs.state_proof.value = Garbage

\* the parachain_headers of the call without the pairs filed under a hash
\* outside the finalized ancestry
WithoutUnfinalized ==
    LET IsFinalized(pair) == InFinalizedAncestry(pair.hash)
    IN  SelectSeq(call.message.parachain_headers, IsFinalized)

\* C16 as stated: a (relay_header_hash, proofs) pair whose hash is not in the
\* newly finalized ancestry is skipped silently: the call succeeds or fails,
\* and returns, exactly what it does without the pair, whatever the proofs of
\* the pair are.
C16_UnfinalizedPairsSkipped ==
    Extracting /\ finality.ok =>
        LET omitted == verify_parachain_headers_with_grandpa_finality_proof(
                           before, [finality_proof |-> call.message.finality_proof,
                                    parachain_headers |-> WithoutUnfinalized])
        IN  /\ extraction.ok = omitted.ok
            /\ extraction.err = omitted.err
            /\ extraction.ok =>
                  extraction.verified_parachain_headers = omitted.verified_parachain_headers

\* ---- the stores

\* C17 as stated: there is one StateCommitment per (state machine id, height)
\* pair (StateCommitments is a map), and a commitment stored for a pair is
\* never changed or removed by a later step.
C17_CommitmentsNeverChange ==
    [][\A height \in DOMAIN state_commitments :
          /\ height \in DOMAIN state_commitments'
          /\ state_commitments'[height] = state_commitments[height]]_vars

\* a step that changed the stored ConsensusState
StoredChanges == consensus_states'[ConsensusClientId] # consensus_states[ConsensusClientId]

\* a step in which a call verified a finality proof with success
VerifiedStep ==
    /\ ~call.active
    /\ call'.active
    /\ call'.message.kind # "Malformed"
    /\ call'.result.ok
    /\ call'.result.finality.ok

PushedPositions(n) == {mmr_push_position([number_of_leaves |-> i]) : i \in 0..(n - 1)}

\* the held proof was asked for positions that pushes returned
AboutPushed == held # <<>> /\ Range(held.leaf_indices) \subseteq PushedPositions(held.leaves_then)

\* the held proof checked against a root, under the size of its leaf_count
VerifiesAgainst(root, leaves, items) ==
    /\ held.result.ok
    /\ verify_proof(root, proof_mmr_size(held.result.proof),
                    held.result.proof.leaf_indices, leaves, items)

OtherLeaves == LeafPool \cup {3}

OtherHashes == {<<3>>} \cup {node_hash(mmr.nodes[i]) : i \in DOMAIN mmr.nodes}

\* C19: a proof generated for any non-empty list of pushed positions verifies
\* against the root on_finalize committed, and stops verifying when one leaf
\* or one proof item is changed
C19_ProofRoundTrip ==
    AboutPushed =>
        /\ VerifiesAgainst(held.root, held.result.leaves, held.result.proof.items)
        /\ \A i \in DOMAIN held.result.leaves : \A leaf \in OtherLeaves \ {held.result.leaves[i]} :
              ~VerifiesAgainst(held.root, [held.result.leaves EXCEPT ![i] = leaf],
                               held.result.proof.items)
        /\ \A i \in DOMAIN held.result.proof.items :
              \A h \in OtherHashes \ {held.result.proof.items[i]} :
                  ~VerifiesAgainst(held.root, held.result.leaves,
                                   [held.result.proof.items EXCEPT ![i] = h])

\* the held proof checked as it was generated, against the root captured then
HeldValid == VerifiesAgainst(held.root, held.result.leaves, held.result.proof.items)

\* leaves were pushed and committed after the held proof was generated
Stale ==
    /\ held # <<>>
    /\ mmr.finalized
    /\ mmr.number_of_leaves > held.leaves_then

\* the check of the held proof as made when it was generated: against the
\* root and under the size of the leaves then in storage
ValidThen ==
    /\ held.result.ok
    /\ verify_proof(held.root, size(held.leaves_then), held.result.proof.leaf_indices,
                    held.result.leaves, held.result.proof.items)

LeafPositions(store) == {i - 1 : i \in {k \in DOMAIN store.nodes : DOMAIN store.nodes[k] = {"data"}}}

\* the step is a call of Pallet::mmr_push that returned a position, or None
PushReturned(result) ==
    /\ ret' # ret
    /\ ret'.op = "mmr_push"
    /\ ret'.result = result

C22_FinalizeIdempotent ==
    /\ on_finalize(on_finalize(mmr)) = on_finalize(mmr)
    /\ on_finalize(mmr).number_of_leaves = mmr.number_of_leaves
    /\ on_finalize(mmr).nodes = mmr.nodes
    /\ mmr.finalized => on_finalize(mmr) = mmr

\* a block closed over three leaves, on which on_finalize runs again
C22_Witness ==
    /\ mmr.finalized
    /\ mmr.number_of_leaves = 3
    /\ mmr.root_hash = node_hash(get_root(mmr.nodes)[1])
    /\ on_finalize(mmr) = mmr

\* C23: generate_proof asked for a position that no push returned gives
\* LeafNotFound and no proof
C23_LeafNotFoundForUnpushed ==
    (held # <<>> /\ ~(Range(held.leaf_indices) \subseteq PushedPositions(held.leaves_then))) =>
        /\ ~held.result.ok
        /\ held.result.err = "LeafNotFound"

\* the last call was delete_request_commitment, made in this step
Deleted == ret' # ret /\ ret'.op = "delete_request_commitment"

\* C24: every node of the range stays at its position with its content, the
\* leaf count never falls, and a delete_request_commitment takes away
\* nothing but the request's entry of OutgoingRequestAcks: count, nodes,
\* root and receipts are as before
C24_LeavesNeverDeleted ==
    [][/\ \A i \in DOMAIN mmr.nodes : i \in DOMAIN mmr'.nodes /\ mmr'.nodes[i] = mmr.nodes[i]
       /\ LeafPositions(mmr) \subseteq LeafPositions(mmr')
       /\ mmr'.number_of_leaves >= mmr.number_of_leaves
       /\ Deleted =>
             /\ mmr' = mmr
             /\ incoming_request_acks' = incoming_request_acks
             /\ DOMAIN outgoing_request_acks' = DOMAIN outgoing_request_acks \ {hash_request(ret'.arg)}]_vars

\* the commitment of a request was deleted after its leaf was pushed and
\* the block closed: the leaf is where it was pushed, under the same root
C24_Witness ==
    /\ ret # <<>>
    /\ ret.op = "delete_request_commitment"
    /\ hash_request(ret.arg) \in incoming_request_acks
    /\ mmr.number_of_leaves = 2
    /\ mmr.finalized
    /\ \E pos \in LeafPositions(mmr) : mmr.nodes[pos + 1] = Data(ret.arg)
    /\ mmr.root_hash = node_hash(get_root(mmr.nodes)[1])

\* the leaf a push stored is at the position the push returned
InPlace(push) == mmr.nodes[push.pos + 1] = Data(push.leaf)

RECURSIVE path_nodes(_, _)
\* the nodes of the committed trie that a read of the key rest goes through
path_nodes(node, rest) ==
    IF node.kind # "Branch" \/ ~IsPrefix(node.partial, rest) \/ Len(rest) = Len(node.partial)
        THEN {node}
    ELSE IF node.children[rest[Len(node.partial) + 1]] = <<>> THEN {node}
    ELSE {node} \cup path_nodes(node.children[rest[Len(node.partial) + 1]][1],
                                SubSeq(rest, Len(node.partial) + 2, Len(rest)))

\* the proof has every node of the committed trie on the way to the key
ProvesStructure ==
    path_nodes(trie_root(tcase.inserted), tcase.key) \subseteq into_memory_db(tcase.proof)

\* the reads made of the case
ReadsMade == Range(tcase.read) \cup Range(tcase.verified)

\* C26: a key never inserted is read as None, without error, from a proof
\* holding the nodes on the way to it under the root, and as an error, never
\* None, from a proof that lacks one of them, whatever other nodes it brings;
\* an inserted key is never read as None
C26_AbsentKeyReadsNone ==
    \A r \in ReadsMade :
        /\ (tcase.key \notin tcase.inserted /\ ProvesStructure) => (r.ok /\ r.value = <<>>)
        /\ (tcase.key \notin tcase.inserted /\ ~ProvesStructure) =>
              (~r.ok /\ r.err \in {"Invalid Proof", "Error reading from trie",
                                   "Error reading state proof"})
        /\ (tcase.key \in tcase.inserted /\ r.ok) => r.value = <<TrieValue>>

\* both readers gave None for a key absent from a trie of three keys, the
\* proof lacking a node off the way to the key and bringing nodes of
\* another trie
C26_Witness ==
    /\ tcase.read # <<>> /\ tcase.verified # <<>>
    /\ Cardinality(tcase.inserted) = 3
    /\ tcase.key \notin tcase.inserted
    /\ nodes_of(trie_root(tcase.inserted)) \ tcase.proof # {}
    /\ tcase.proof \ nodes_of(trie_root(tcase.inserted)) # {}
    /\ Cardinality(path_nodes(trie_root(tcase.inserted), tcase.key)) = 2
    /\ tcase.read[1].ok /\ tcase.read[1].value = <<>>
    /\ tcase.verified[1].ok /\ tcase.verified[1].value = <<>>

\* C27: no read of an untrusted field ends in a panic: the verification of a
\* parachain header entry, the timestamp of a slot and the lookup of a relay
\* chain header each return a value or an error
C27_NoPanicOnUntrustedInput ==
    \A r \in Range(tcase.verified) \cup Range(tcase.fetched) \cup Range(tcase.looked) :
        r.err # "panic"

\* freeze_state_machine was called in this step
FrozeAt == ret' # ret /\ ret'.op = "freeze_state_machine"

\* C28: a freeze_state_machine of height h makes is_state_machine_frozen
\* answer FrozenStateMachine for every height from h up of that state
\* machine and Ok for every height below h, the answers for every other
\* state machine staying as they were; nothing but a freeze changes an
\* answer, a state machine never frozen is answered Ok at every height, and a
\* call of is_state_machine_frozen returns that answer
C28_FrozenFromHeightUp ==
    [][/\ FrozeAt =>
            \A id \in StateMachineIds, height \in 0..MaxHeight + 1 :
                is_state_machine_frozen(frozen_heights', id, height) =
                    IF id # ret'.arg[1] THEN is_state_machine_frozen(frozen_heights, id, height)
                    ELSE IF height >= ret'.arg[2] THEN "FrozenStateMachine" ELSE "Ok"
       /\ ~FrozeAt => frozen_heights' = frozen_heights
       /\ \A id \in StateMachineIds \ DOMAIN frozen_heights', height \in 0..MaxHeight + 1 :
            is_state_machine_frozen(frozen_heights', id, height) = "Ok"
       /\ (ret' # ret /\ ret'.op = "is_state_machine_frozen") =>
            ret'.outcome = IF ret'.arg[1] \in DOMAIN frozen_heights
                              /\ ret'.arg[2] >= frozen_heights[ret'.arg[1]]
                           THEN "FrozenStateMachine" ELSE "Ok"]_vars

\* state machine 1 is frozen from height 2, state machine 2 was never
\* frozen, and the last call asked about state machine 1 at its frozen height
C28_Witness ==
    /\ DOMAIN frozen_heights = {1}
    /\ frozen_heights[1] = 2
    /\ ret.op = "is_state_machine_frozen"
    /\ ret.arg = <<1, 2>>
    /\ ret.outcome = "FrozenStateMachine"
    /\ is_state_machine_frozen(frozen_heights, 1, 1) = "Ok"
    /\ is_state_machine_frozen(frozen_heights, 2, 3) = "Ok"

\* C29: is_consensus_client_frozen returns FrozenConsensusClient for the
\* clients freeze_consensus_client was called for and Ok for every other
C29_FrozenIffFreezeCalled ==
    (ret # <<>> /\ ret.op = "is_consensus_client_frozen") =>
        ret.outcome = IF ret.arg \in DOMAIN frozen_consensus_clients
                      THEN "FrozenConsensusClient" ELSE "Ok"

\* the challenge period has not elapsed since the client's last update
BeforeElapsed == now - consensus_update_time[ConsensusClientId] < ChallengePeriod

C31_DuplicateDispatchChangesNothing ==
    [][ /\ (ret'.op = "handle_request" /\ hash_request(ret'.arg) \in incoming_request_acks
               => /\ ret'.outcome = "Duplicate request"
                  /\ mmr' = mmr
                  /\ events' = events
                  /\ incoming_request_acks' = incoming_request_acks
                  /\ incoming_response_acks' = incoming_response_acks)
        /\ (ret'.op = "handle_response" /\ hash_response(ret'.arg) \in incoming_response_acks
               => /\ ret'.outcome = "Duplicate response"
                  /\ mmr' = mmr
                  /\ events' = events
                  /\ incoming_request_acks' = incoming_request_acks
                  /\ incoming_response_acks' = incoming_response_acks) ]_vars

\* a request and the response to another were dispatched once each, and a
\* second dispatch of the response was refused: two leaves, two events
C31_Witness ==
    /\ ret # <<>>
    /\ ret.op = "handle_response"
    /\ ret.outcome = "Duplicate response"
    /\ hash_request(1) \in incoming_request_acks
    /\ hash_response(ret.arg) \in incoming_response_acks
    /\ mmr.number_of_leaves = 2
    /\ Len(events) = 2


\* whether the last call handled a timeout of the request, or an answer to it
HandledFor(call_made, request) ==
    /\ call_made # <<>>
    /\ call_made.op \in {"handle_timeout", "handle_get_response"}
    /\ call_made.arg = request

C33_HandleOncePerBlock ==
    [][ (/\ ret # <<>>
         /\ ret.op = "handle"
         /\ ret.outcome # "ValidationData must be updated only once in a block"
         /\ ret'.op = "handle")
            => ret'.outcome = "ValidationData must be updated only once in a block" ]_vars

\* InherentUpdated holds no value in any state: handle reads it and
\* on_initialize kills it, nothing writes it
C33_InherentUpdatedNeverSet == ~InherentUpdated_exists(inherent_updated)


\* C34: after any successful calls the stored current_set_id and
\* current_authorities are the set id and the authority list in force on the
\* chain after the header the stored latest_hash names.
C34_SetInForceAtLatestHash ==
    /\ stored.current_set_id = SetIdAfter(HeaderOf(stored.latest_hash))
    /\ stored.current_authorities = TrueAuthorities(SetIdAfter(HeaderOf(stored.latest_hash)))


\* the leaves the range held when the held proof was generated
LeavesThen ==
    {mmr.nodes[pos + 1].data : pos \in {p \in LeafPositions(mmr) : p < size(held.leaves_then)}}

\* C35: verify_membership returns Ok only if every request of the submitted
\* item is a leaf of the range the overlay root commits to, also when the
\* proof names fewer leaves than the item has requests.
C35_OnlyLeavesAreMembers ==
    (ret # <<>> /\ ret.op = "verify_membership" /\ ret.outcome = "Ok") =>
        \A i \in DOMAIN ret.arg : ret.arg[i] \in LeavesThen


\* Pallet::get_request: the element kept off chain under the index's key,
\* when it is a leaf
get_request(store, leaf_index) ==
    IF get_elem(store.nodes, leaf_index) # <<>> /\ "data" \in DOMAIN get_elem(store.nodes, leaf_index)[1]
        THEN <<get_elem(store.nodes, leaf_index)[1].data>>
        ELSE <<>>

\* C36: for every leaf pushed, the index mmr_push filed off chain under the
\* leaf's key names that leaf again when handed to get_request and, once the
\* block is finalized, to generate_proof.
C36_StoredIndexNamesItsLeaf ==
    \A leaf \in DOMAIN mmr.leaf_index_offchain :
        /\ get_request(mmr, mmr.leaf_index_offchain[leaf]) = <<leaf>>
        /\ mmr.finalized =>
              /\ generate_proof(mmr, <<mmr.leaf_index_offchain[leaf]>>).ok
              /\ generate_proof(mmr, <<mmr.leaf_index_offchain[leaf]>>).leaves = <<leaf>>


\* C37: request_receipt returns Some only for a request this chain received
\* and store_request_receipt filed; a request this chain sends has no
\* receipt, before and after its dispatch.
C37_ReceiptsOnlyForReceived ==
    /\ \A req \in Requests : request_receipt(incoming_request_acks, req) = "None"
    /\ (ret # <<>> /\ ret.op = "request_receipt" /\ ret.outcome = "Some") =>
          ret.arg \in ReceivedRequests


\* the leaves pushed so far, oldest first
PushedLeaves == SelectSeq(mmr.nodes, LAMBDA node : "data" \in DOMAIN node)

\* the range built from nothing by pushing the given leaves one by one
RECURSIVE RangeOver(_)
RangeOver(leaves) ==
    IF leaves = <<>> THEN <<>>
    ELSE mmr_lib_push(RangeOver(SubSeq(leaves, 1, Len(leaves) - 1)), leaves[Len(leaves)])

\* a block has just ended: on_finalize ran and nothing was pushed since
BlockEnded == mmr.finalized /\ digest # <<>>

Started == {i \in DOMAIN events : events[i].kind = "ChallengePeriodStarted"}

Announced == {i \in DOMAIN events : events[i].kind = "StateMachineUpdated"}

\* j and k are the starts of two challenge periods of which the second
\* followed the first, or j is the last start and k the end of the log
Consecutive(j, k) ==
    /\ j \in Started
    /\ k \in Started \cup {Len(events) + 1}
    /\ j < k
    /\ \A m \in Started : ~(j < m /\ m < k)

====
